---------------------------- MODULE Spec2Model ----------------------------
(***************************************************************************)
(* A model of the agent orchestration core of opus: the conversation loop  *)
(* (OpusAgent.chat), the tool-dispatch engine                              *)
(* (OpusAgent._execute_tool_calls_parallel / _execute_single_tool), the    *)
(* retry tracker (ToolExecutionTracker), the construction of an agent      *)
(* (OpusAgent.__init__ with ToolLoader.load_tools) and the tool that fans  *)
(* work out to sub-agents (execute_run_subagents).                         *)
(*                                                                         *)
(* Scheduling is that of one asyncio event loop: a step of the model is    *)
(* the code that runs between two suspension points of one task.           *)
(***************************************************************************)
EXTENDS Integers, Sequences, FiniteSets, TLC

(***************************************************************************)
(* Bounds of the model.                                                    *)
(***************************************************************************)
\* number of chat() invocations explored on one agent
MaxTurns == 2
\* the configured max_iterations explored (config.max_iterations)
MaxIterations == 2
\* the largest number of tool calls in one model response
MaxBatch == 3
\* cap on the number of tool calls the model asks for over the whole run
MaxToolCalls == 3
\* the largest limit explored for a free-standing ToolExecutionTracker
MaxAttemptsLimit == 3
\* cap on the attempt counters of the free-standing tracker
MaxCount == 4
\* the longest valid task list explored in a run of run_subagents
MaxTasks == 2
\* the largest timeout, in seconds, of a tool or of the executor
MaxTimeout == 2
\* the seconds over which one execute_tool call is followed
MaxClock == 4
\* the largest number of tool calls in the raw message of one model call
MaxRawCalls == 2
\* the largest number of characters of an argument value
MaxLen == 3

(***************************************************************************)
(* Program constants.                                                      *)
(***************************************************************************)
\* OpusConfig.max_retry_attempts, handed to the agent's tracker
MaxRetryAttempts == 2
\* run_subagents.MAX_SUBAGENTS
MAX_SUBAGENTS == 10
\* max_iterations of a sub-agent when max_turns is not given (run_subagents.py:202)
DefaultSubagentTurns == 15
\* DEFAULT_SUBAGENT_TIMEOUT, in seconds (tools/run_subagents.py)
DEFAULT_SUBAGENT_TIMEOUT == 300
\* default_timeout of a configuration that does not set it (config.py)
DefaultTimeout == 30

VARIABLES
    tools_config,    \* OpusConfig.tools_config: per tool name, its settings
    is_subagent,     \* OpusAgent.is_subagent
    tools,           \* OpusAgent.tools, as handed to the provider and the prompt
    tools_by_name,   \* ToolLoader.tools_by_name: the registry get_tool reads
    messages,        \* OpusAgent.messages: the conversation history
    attempt_counts,  \* ToolExecutionTracker.attempt_counts (a dict)
    max_attempts,    \* ToolExecutionTracker.max_attempts
    max_iterations,  \* OpusConfig.max_iterations
    pc,              \* position of chat(): idle, llm, auto, gated, returned, raised
    iteration,       \* the local variable iteration of chat()
    calls,           \* the batch under dispatch: one record per tool call
    ret,             \* what the last chat() returned
    turn,            \* number of chat() invocations so far
    next_id,         \* source of fresh tool-call ids
    llm_outstanding, \* a call of self.llm.call is in progress
    llm_calls,       \* history variable: model calls issued in this turn
    streak,          \* history variable: executions per tool since its last success or reset
    history0,        \* history variable: the history when the current chat() was called
    args,            \* the arguments of the execute_run_subagents call under study
    run_pc,          \* position of execute_run_subagents: none, called, spawning, returned
    children,        \* per task of the call: the state of its _spawn_subagent
    tool_result,     \* what execute_run_subagents returned
    tool,            \* the tool definition of the execute_tool call under study
    timeout,         \* ToolExecutor.timeout: the executor's default, in seconds
    exec_pc,         \* position of execute_tool: none, called, communicate, wait, handler,
                     \* returned, raised, reported
    process,         \* the subprocess of the call: none, running, exited, killed, reaped
    descendant,      \* a process the command started: none, piped (it holds the pipes
                     \* of the subprocess), detached, exited
    elapsed,         \* seconds since execute_tool was called
    exec_result,     \* what execute_tool returned or raised
    backend,         \* the provider class the factory built, and for OpenAI its api_type
    raw_message,     \* what the client of the provider returns for the model call under study
    llm_response,    \* what LLMProvider.call returned, or that it raised
    llm_pc,          \* position of the model call under study: none, called, returned,
                     \* raised, final (chat() returned the text), dispatch
    script,          \* the command template of the _build_command_array call under study
    value,           \* the argument value substituted for its placeholder
    command_array,   \* what _build_command_array returned
    build_pc         \* position of _build_command_array: none, called, returned, raised

agent_vars == <<messages, max_iterations, pc, iteration, calls, ret, turn,
                next_id, llm_outstanding, llm_calls, history0>>
tracker_vars == <<attempt_counts, max_attempts, streak>>
config_vars == <<tools_config, is_subagent, tools, tools_by_name>>
subagent_vars == <<args, run_pc, children, tool_result>>
executor_vars == <<tool, timeout, exec_pc, process, descendant, elapsed, exec_result>>
provider_vars == <<backend, raw_message, llm_response, llm_pc>>
command_vars == <<script, value, command_array, build_pc>>
vars == <<agent_vars, tracker_vars, config_vars, subagent_vars, executor_vars, provider_vars, command_vars>>

(***************************************************************************)
(* Python dicts: functions on the set of keys present.                     *)
(***************************************************************************)
EmptyDict == [k \in {} |-> 0]

DictGet(d, k, default) == IF k \in DOMAIN d THEN d[k] ELSE default

DictSet(d, k, v) == [x \in (DOMAIN d) \cup {k} |-> IF x = k THEN v ELSE d[x]]

(***************************************************************************)
(* The values of a run of the tool run_subagents when no run is under      *)
(* study.                                                                  *)
(***************************************************************************)
NoTasks == [type |-> "absent", size |-> 0, items |-> <<>>]

NoArgs == [tasks |-> NoTasks, execution_mode |-> "absent", max_turns |-> {}]

NoResult == [kind |-> "none", error |-> "", results |-> <<>>, report |-> <<>>,
             summary |-> [total_tasks |-> 0, successful |-> 0, failed |-> 0]]

(***************************************************************************)
(* The values of a call of ToolExecutor.execute_tool when no call is under *)
(* study.                                                                  *)
(***************************************************************************)
NoTool == [name |-> "", kind |-> "none", timeout |-> {}]

NoExecResult == [kind |-> "none", seconds |-> {}, command |-> FALSE, cwd |-> FALSE, message |-> <<>>]

ExecutorIdle ==
    /\ tool = NoTool
    /\ timeout = 0
    /\ exec_pc = "none"
    /\ process = "none"
    /\ descendant = "none"
    /\ elapsed = 0
    /\ exec_result = NoExecResult

\* no model call is under study
NoRawMessage == [stop |-> "none", text |-> "", tool_calls |-> <<>>, candidates |-> FALSE]

NoResponse == [kind |-> "none", message |-> "", tool_calls |-> <<>>, done |-> FALSE]

ProviderIdle ==
    /\ backend = "none"
    /\ raw_message = NoRawMessage
    /\ llm_response = NoResponse
    /\ llm_pc = "none"

\* no command is being built
CommandIdle ==
    /\ script = <<>>
    /\ value = <<>>
    /\ command_array = <<>>
    /\ build_pc = "none"

(***************************************************************************)
(* ToolExecutionTracker (error_recovery.py).                               *)
(***************************************************************************)
\* record_attempt: the dict after the call; the value returned is its entry for tool_name
record_attempt(counts, tool_name) ==
    LET c0 == IF tool_name \notin DOMAIN counts THEN DictSet(counts, tool_name, 0) ELSE counts
    IN  DictSet(c0, tool_name, c0[tool_name] + 1)

\* a variant of record_success that clears the counter of every tool
record_success_global(counts, tool_name) == [n \in DOMAIN counts |-> 0]

\* a variant of record_success that takes a returned error dictionary for a failure
record_success_unless_error(counts, tool_name) ==
    IF tool_result.kind = "error" THEN counts
    ELSE IF tool_name \in DOMAIN counts THEN DictSet(counts, tool_name, 0)
    ELSE counts

record_success(counts, tool_name) ==
    IF tool_name \in DOMAIN counts THEN DictSet(counts, tool_name, 0) ELSE counts

\* a variant of can_retry that allows one attempt too many
can_retry_inclusive(counts, tool_name, limit) == DictGet(counts, tool_name, 0) <= limit

can_retry(counts, tool_name, limit) == DictGet(counts, tool_name, 0) < limit

\* a variant of reset that leaves the counters in place
reset_keeps_counters(counts) == counts

reset(counts) == EmptyDict

(***************************************************************************)
(* Configuration and tool loading (config.py, tools/loader.py).  An entry  *)
(* of tools_config holds "enabled", "approval" and "source": "none" when   *)
(* the entry names no source file, "ok" when the file it names loads and   *)
(* "bad" when it does not.                                                 *)
(***************************************************************************)
\* config.BUILTIN_TOOLS
BUILTIN_TOOLS == <<"bash", "file_read", "file_write", "file_edit", "fetch_url",
                   "run_recipe", "get_current_time">>

\* the names ToolLoader._load_builtin_tool knows
LoaderBuiltins == {"fetch", "recipe", "bash", "read"}

\* the tool names a configuration file of the model may list, in file order
ConfigNames == <<"bash", "write", "run_subagents">>

Range(seq) == {seq[i] : i \in DOMAIN seq}

\* the tool names the model provider may ask for
ToolNames == {"bash", "write", "nope"}

\* tools_config.get(name, {}).get("enabled", True)
Enabled(cfg, name) == IF name \in DOMAIN cfg THEN cfg[name].enabled ELSE TRUE

\* OpusConfig.get_enabled_tools: the built-in names not disabled, then the
\* other names of the configuration that are not disabled
get_enabled_tools(cfg) ==
    LET BuiltinOn(n) == Enabled(cfg, n)
        CustomOn(n) == n \in DOMAIN cfg /\ n \notin Range(BUILTIN_TOOLS) /\ cfg[n].enabled
    IN  SelectSeq(BUILTIN_TOOLS, BuiltinOn) \o SelectSeq(ConfigNames, CustomOn)

\* OpusConfig.get_tool_source
get_tool_source(cfg, name) == IF name \in DOMAIN cfg THEN cfg[name].source ELSE "none"

\* a tool definition (a dict); the file of a custom tool declares the name it is configured under
ToolDef(name) == [name |-> name]

NoneDef == [name |-> "None"]

\* whether load_tools gets a definition for the enabled name (loader.py:49-67)
Loads(cfg, name) ==
    IF get_tool_source(cfg, name) # "none"
    THEN get_tool_source(cfg, name) = "ok"
    ELSE name \in LoaderBuiltins

\* ToolLoader.load_tools: the list it returns
load_tools(cfg) ==
    LET Ok(n) == Loads(cfg, n)
        names == SelectSeq(get_enabled_tools(cfg), Ok)
    IN  [i \in DOMAIN names |-> ToolDef(names[i])]

\* ToolLoader.tools_by_name after load_tools
loaded_by_name(cfg) ==
    [n \in {m \in Range(get_enabled_tools(cfg)) : Loads(cfg, m)} |-> ToolDef(n)]

\* Python's == between a str and a dict is False
StrEqualsDict(str, dict) == FALSE

\* the test "run_subagents" in self.tools of OpusAgent.__init__ (agent.py:71):
\* self.tools is the list of dicts load_tools returned
StrInList(str, list) == \E i \in DOMAIN list : StrEqualsDict(str, list[i])

\* self.tools after agent.py:65-73; the filter of line 73 runs only when the test holds
agent_tools(cfg, sub) ==
    IF sub /\ StrInList("run_subagents", load_tools(cfg))
    THEN SelectSeq(load_tools(cfg), LAMBDA d : d.name # "run_subagents")
    ELSE load_tools(cfg)

\* OpusConfig.get_tool_config(name).get("approval", False)
needs_approval(tool_name) ==
    IF tool_name \in DOMAIN tools_config THEN tools_config[tool_name].approval ELSE FALSE

\* a variant of get_tool that finds a definition for every name
get_tool_any(tool_name) == ToolDef(tool_name)

\* ToolLoader.get_tool: None for a name that was not loaded
get_tool(tool_name) == DictGet(tools_by_name, tool_name, NoneDef)

\* the configuration of the agent whose conversations are explored: the
\* built-in "bash" runs without approval, the custom tool "write" is gated
StudyConfig == [n \in {"write"} |-> [enabled |-> TRUE, source |-> "ok", approval |-> TRUE]]

(***************************************************************************)
(* Messages of the history, in the universal format of the providers the   *)
(* factory can build (role / content / tool_calls / tool_call_id).         *)
(***************************************************************************)
Msg(role, content, tool_calls, id, attempt, text) ==
    [role |-> role, content |-> content, tool_calls |-> tool_calls,
     tool_call_id |-> id, attempt |-> attempt, text |-> text]

\* str(e) of a tool failure: the ValueError of an unknown tool names the tool
\* and lists the keys of the registry (agent.py:173-178); the other failures
\* carry the message of the executor or of the handler
ErrorMessage(kind, tool_name) ==
    IF kind = "unknown_tool"
    THEN [kind |-> "not_found", tool |-> tool_name, available |-> DOMAIN tools_by_name]
    ELSE [kind |-> kind, tool |-> "", available |-> {}]

NoErrorMessage == [kind |-> "", tool |-> "", available |-> {}]

\* the text of a message that is not an error text
NoText == [tool_name |-> "", attempt |-> 0, max_attempts |-> 0, error |-> NoErrorMessage,
           arguments |-> FALSE, hints |-> FALSE, remaining |-> {}]

\* ToolError.to_llm_message: the parts of the text.  The header holds the tool
\* name and "attempt k/max", then the error message and the arguments; the
\* recovery hints and "You have n more attempt(s)" only when attempt < max_attempts
to_llm_message(tool_name, error_message, attempt, limit) ==
    [tool_name |-> tool_name, attempt |-> attempt, max_attempts |-> limit,
     error |-> error_message, arguments |-> TRUE,
     hints |-> attempt < limit,
     remaining |-> IF attempt < limit THEN {limit - attempt} ELSE {}]

UserMsg(content) == Msg("user", content, <<>>, 0, 0, NoText)

NoMsg == Msg("none", "", <<>>, 0, 0, NoText)

\* LLMProvider.format_assistant_message
format_assistant_message(response) ==
    Msg("assistant", response.message, response.tool_calls, 0, 0, NoText)

\* LLMProvider.format_tool_result: the result message carries the call's id;
\* content is the kind of result ("result", "error", "rejected"), attempt the
\* attempt number an error text embeds, text the error text
format_tool_result(tool_call_id, content, attempt, text) ==
    Msg("tool", content, <<>>, tool_call_id, attempt, text)

LimitMessage == "Maximum iteration limit reached. Please try a simpler request."

(***************************************************************************)
(* Responses of the model provider (LLMProvider.call).                     *)
(***************************************************************************)
\* done as AnthropicProvider.call computes it
Done(stop_reason, tool_calls) == stop_reason = "end_turn" /\ tool_calls = <<>>

Response(text, tool_calls, stop_reason) ==
    [message |-> text, tool_calls |-> tool_calls, done |-> Done(stop_reason, tool_calls)]

Batches == UNION {[1..n -> ToolNames] : n \in 1..MaxBatch}

\* the tool calls of a response asking for the names of batch b, with fresh ids
ToolCalls(b, first_id) == [i \in 1..Len(b) |-> [id |-> first_id + i, name |-> b[i]]]

(***************************************************************************)
(* Exceptions: the classes a tool failure is raised with, and what the     *)
(* clause "except Exception" of _execute_single_tool catches.              *)
(***************************************************************************)
FailureKinds == {"nonzero_exit", "timeout", "handler_exception"}

\* the class raised: ToolExecutor raises Exception(...), a handler any Exception
ExcClass(kind) == IF kind = "unknown_tool" THEN "ValueError" ELSE "Exception"

\* a variant of the except clause that lets every exception through
CaughtNever(cls) == FALSE

\* "except Exception as e" (agent.py:200)
CaughtByExcept(cls) == cls \in {"Exception", "ValueError"}

(***************************************************************************)
(* The batch under dispatch.  A call is "new" (its coroutine has not run), *)
(* "prompting" (the approval prompt is on screen), "running" (suspended in *)
(* ToolExecutor.execute_tool) or "done" (its result message is built).     *)
(***************************************************************************)
NewCall(tc) == [id |-> tc.id, name |-> tc.name, st |-> "new", attempt |-> 0,
                nth |-> 0, will_retry |-> FALSE, failed |-> FALSE, approved |-> FALSE,
                result |-> NoMsg]

\* the partition of _execute_tool_calls_parallel (agent.py:236-244), as index sets
auto_approved_calls(cs) == {i \in DOMAIN cs : ~needs_approval(cs[i].name)}

needs_approval_calls(cs) == {i \in DOMAIN cs : needs_approval(cs[i].name)}

\* the elements of a set of indices in increasing order
RECURSIVE InOrder(_)
InOrder(S) ==
    IF S = {} THEN <<>>
    ELSE LET m == CHOOSE x \in S : \A y \in S : x <= y
         IN  <<m>> \o InOrder(S \ {m})

\* a variant of Results that loses the results of the gated calls
ResultsWithoutGated(cs) ==
    [k \in 1..Cardinality(auto_approved_calls(cs)) |-> cs[InOrder(auto_approved_calls(cs))[k]].result]

\* a variant of Results that loses the result of the last call of the batch
ResultsDropLast(cs) ==
    [k \in 1..(Len(cs) - 1) |->
        cs[(InOrder(auto_approved_calls(cs)) \o InOrder(needs_approval_calls(cs)))[k]].result]

\* a variant of Results that returns the results in the request order of the batch
ResultsInRequestOrder(cs) == [k \in 1..Len(cs) |-> cs[k].result]

\* results, as built at agent.py:246-262: those of the concurrent calls in
\* request order (what gather returns), then those of the gated calls in order
Results(cs) ==
    [k \in 1..Len(cs) |->
        cs[(InOrder(auto_approved_calls(cs)) \o InOrder(needs_approval_calls(cs)))[k]].result]

\* a variant of the wait that resumes on the first finished task
GatherFirstCompleted(cs) ==
    auto_approved_calls(cs) = {} \/ \E i \in auto_approved_calls(cs) : cs[i].st = "done"

\* "await asyncio.gather(...)" (agent.py:251) resumes when every task is done
GatherDone(cs) == \A i \in auto_approved_calls(cs) : cs[i].st = "done"

\* asyncio runs the first step of the gathered tasks in the order of creation
NextAuto(cs) ==
    CHOOSE i \in auto_approved_calls(cs) :
        cs[i].st = "new" /\ \A j \in auto_approved_calls(cs) : j < i => cs[j].st # "new"

\* a variant of the sequential loop that takes the gated calls in reverse order
NextGatedReversed(cs) ==
    CHOOSE i \in needs_approval_calls(cs) :
        cs[i].st = "new" /\ \A j \in needs_approval_calls(cs) : j > i => cs[j].st # "new"

\* "for tool_call in needs_approval_calls" (agent.py:260): the next one in request order
NextGated(cs) ==
    CHOOSE i \in needs_approval_calls(cs) :
        cs[i].st = "new" /\ \A j \in needs_approval_calls(cs) : j < i => cs[j].st # "new"

\* a variant of the loop head whose test is off by one
LoopHeadInclusive(msgs, iter, issued) ==
    /\ messages' = msgs
    /\ IF iter <= max_iterations
       THEN /\ iteration' = iter + 1
            /\ pc' = "llm"
            /\ llm_outstanding' = TRUE
            /\ llm_calls' = issued + 1
            /\ ret' = ret
       ELSE /\ iteration' = iter
            /\ pc' = "returned"
            /\ llm_outstanding' = FALSE
            /\ llm_calls' = issued
            /\ ret' = LimitMessage

(***************************************************************************)
(* OpusAgent.chat: the head of "while iteration < max_iterations" with the *)
(* history msgs; it issues the next model call or leaves with the limit    *)
(* message (agent.py:293-299, 318).                                        *)
(***************************************************************************)
LoopHead(msgs, iter, issued) ==
    /\ messages' = msgs
    /\ IF iter < max_iterations
       THEN /\ iteration' = iter + 1
            /\ pc' = "llm"
            /\ llm_outstanding' = TRUE
            /\ llm_calls' = issued + 1
            /\ ret' = ret
       ELSE /\ iteration' = iter
            /\ pc' = "returned"
            /\ llm_outstanding' = FALSE
            /\ llm_calls' = issued
            /\ ret' = LimitMessage

(***************************************************************************)
(* _execute_tool_calls_parallel after a step that left the batch as cs:    *)
(* wait for the gather, then prompt for the next gated call, and when no   *)
(* call is left append the results and go back to the loop (agent.py:      *)
(* 248-268, 316).                                                          *)
(***************************************************************************)
Advance(msgs, cs) ==
    IF ~GatherDone(cs)
    THEN /\ pc' = "auto"
         /\ calls' = cs
         /\ messages' = msgs
         /\ llm_outstanding' = FALSE
         /\ UNCHANGED <<iteration, llm_calls, ret>>
    ELSE IF \E i \in needs_approval_calls(cs) : cs[i].st = "new"
    THEN /\ pc' = "gated"
         /\ calls' = [cs EXCEPT ![NextGated(cs)].st = "prompting"]
         /\ messages' = msgs
         /\ llm_outstanding' = FALSE
         /\ UNCHANGED <<iteration, llm_calls, ret>>
    ELSE /\ calls' = cs
         /\ LoopHead(msgs \o Results(cs), iteration, llm_calls)

(***************************************************************************)
(* _execute_single_tool from "Record attempt before execution" to the      *)
(* first suspension (agent.py:165-182): the call i of the batch cs.        *)
(* An unknown tool raises ValueError at once and the except clause turns   *)
(* it into an error result.                                                *)
(***************************************************************************)
Started(cs, i, counts) ==
    LET name == cs[i].name
        attempt == counts[name]
        c1 == [cs EXCEPT ![i].attempt = attempt, ![i].nth = streak[name] + 1]
    IN  IF get_tool(name) = NoneDef
        THEN IF CaughtByExcept(ExcClass("unknown_tool"))
             THEN [c1 EXCEPT ![i].st = "done",
                             ![i].failed = TRUE,
                             ![i].will_retry = can_retry(counts, name, max_attempts),
                             ![i].result = format_tool_result(cs[i].id, "error", attempt,
                                 to_llm_message(name, ErrorMessage("unknown_tool", name),
                                                attempt, max_attempts))]
             ELSE [c1 EXCEPT ![i].st = "raised", ![i].failed = TRUE]
        ELSE [c1 EXCEPT ![i].st = "running"]

(***************************************************************************)
(* _execute_single_tool after execute_tool has returned or raised          *)
(* (agent.py:184-221): the call record of call i with outcome "ok" or a    *)
(* failure kind.                                                           *)
(***************************************************************************)
Finished(cs, i, outcome, counts) ==
    IF outcome = "ok"
    THEN [cs EXCEPT ![i].st = "done",
                    ![i].result = format_tool_result(cs[i].id, "result", 0, NoText)]
    ELSE IF CaughtByExcept(ExcClass(outcome))
    THEN [cs EXCEPT ![i].st = "done",
                    ![i].failed = TRUE,
                    ![i].will_retry = can_retry(counts, cs[i].name, max_attempts),
                    ![i].result = format_tool_result(cs[i].id, "error", cs[i].attempt,
                        to_llm_message(cs[i].name, ErrorMessage(outcome, cs[i].name),
                                       cs[i].attempt, max_attempts))]
    ELSE [cs EXCEPT ![i].st = "raised", ![i].failed = TRUE]

\* a variant of the rejection that goes on to the executor
RejectedButExecuted(cs, i) == [cs EXCEPT ![i].st = "running"]

\* the user did not approve call i: the short-circuit of agent.py:157-163
Rejected(cs, i) ==
    [cs EXCEPT ![i].st = "done",
               ![i].result = format_tool_result(cs[i].id, "rejected", 0, NoText)]

\* an exception left _execute_single_tool: gather, or the await of the gated
\* call, re-raises it in _execute_tool_calls_parallel and chat() does not catch it
Escaped(cs) == \E i \in DOMAIN cs : cs[i].st = "raised"

Propagate(cs) ==
    /\ pc' = "raised"
    /\ calls' = cs
    /\ llm_outstanding' = FALSE
    /\ UNCHANGED <<messages, iteration, llm_calls, ret>>

(***************************************************************************)
(* The agent: its state after construction and its steps.                  *)
(***************************************************************************)
\* a variant of the append that takes the user message unconditionally
with_user_message_always(msgs, user_message) == Append(msgs, UserMsg(user_message))

\* "if user_message or not self.messages: self.messages.append(...)" (agent.py:285-286)
with_user_message(msgs, user_message) ==
    IF user_message # "" \/ msgs = <<>>
    THEN Append(msgs, UserMsg(user_message))
    ELSE msgs

\* a variant of the cancellation handler that drops the last message whatever its role
pop_last_always(msgs) == IF msgs # <<>> THEN SubSeq(msgs, 1, Len(msgs) - 1) ELSE msgs

\* the cancellation handler's clean-up of the history (agent.py:322-323)
pop_last_if_user(msgs) ==
    IF msgs # <<>> /\ msgs[Len(msgs)].role = "user"
    THEN SubSeq(msgs, 1, Len(msgs) - 1)
    ELSE msgs

\* initial_messages of OpusAgent.__init__: none for the top-level agent, the
\* task prompt as a user message for a sub-agent (run_subagents.py:108-133)
initial_messages(sub) == IF sub THEN <<UserMsg("task")>> ELSE <<>>

ZeroStreak == [n \in ToolNames |-> 0]

UserInputs == {"", "hi"}

Init ==
    /\ tools_config = StudyConfig
    /\ is_subagent \in BOOLEAN
    /\ tools = agent_tools(StudyConfig, is_subagent)
    /\ tools_by_name = loaded_by_name(StudyConfig)
    /\ messages = initial_messages(is_subagent)
    /\ attempt_counts = EmptyDict
    /\ max_attempts = MaxRetryAttempts
    /\ max_iterations \in 0..MaxIterations
    /\ pc = "idle"
    /\ iteration = 0
    /\ calls = <<>>
    /\ ret = "none"
    /\ turn = 0
    /\ next_id = 0
    /\ llm_outstanding = FALSE
    /\ llm_calls = 0
    /\ streak = ZeroStreak
    /\ history0 = <<>>
    /\ args = NoArgs
    /\ run_pc = "none"
    /\ children = <<>>
    /\ tool_result = NoResult
    /\ ExecutorIdle
    /\ ProviderIdle
    /\ CommandIdle

\* chat(user_message) up to its first model call (agent.py:280-299)
Chat(user_message) ==
    /\ pc \in {"idle", "returned", "raised"}
    /\ turn < MaxTurns
    /\ turn' = turn + 1
    /\ history0' = messages
    /\ attempt_counts' = reset(attempt_counts)
    /\ streak' = ZeroStreak
    /\ calls' = <<>>
    /\ LoopHead(with_user_message(messages, user_message), 0, 0)
    /\ UNCHANGED <<max_attempts, max_iterations, next_id, config_vars, subagent_vars, executor_vars, provider_vars, command_vars>>

\* what self.llm.call may return for the ids after first_id
Responses(first_id) ==
    {Response("answer", <<>>, "end_turn"), Response("", <<>>, "max_tokens")}
    \cup {Response("", ToolCalls(b, first_id), "tool_use") : b \in Batches}

\* the model call returns: agent.py:299-316 up to the first suspension of the dispatch
LLMRespond ==
    /\ pc = "llm"
    /\ \E response \in Responses(next_id) :
        LET msgs == Append(messages, format_assistant_message(response))
            cs == [i \in DOMAIN response.tool_calls |-> NewCall(response.tool_calls[i])]
        IN  /\ next_id + Len(response.tool_calls) <= MaxToolCalls
            /\ next_id' = next_id + Len(response.tool_calls)
            /\ IF response.done
               THEN /\ pc' = "returned"
                    /\ ret' = response.message
                    /\ messages' = msgs
                    /\ calls' = <<>>
                    /\ llm_outstanding' = FALSE
                    /\ UNCHANGED <<iteration, llm_calls>>
               ELSE Advance(msgs, cs)
    /\ UNCHANGED <<turn, history0, max_iterations, tracker_vars, config_vars, subagent_vars, executor_vars, provider_vars, command_vars>>

\* a variant of the failing model call in which chat() turns the error into a
\* returned text
LLMFailReturned ==
    /\ pc = "llm"
    /\ pc' = "returned"
    /\ ret' = "error"
    /\ llm_outstanding' = FALSE
    /\ UNCHANGED <<messages, max_iterations, iteration, calls, turn, history0,
                   next_id, llm_calls, tracker_vars, config_vars, subagent_vars, executor_vars, provider_vars, command_vars>>

\* a variant of the failing model call in which chat() restores the history
\* and the counters the turn started with
LLMFailRolledBack ==
    /\ pc = "llm"
    /\ pc' = "raised"
    /\ llm_outstanding' = FALSE
    /\ messages' = history0
    /\ attempt_counts' = EmptyDict
    /\ UNCHANGED <<max_iterations, iteration, calls, ret, turn, history0,
                   next_id, llm_calls, max_attempts, streak, config_vars, subagent_vars,
                   executor_vars, provider_vars, command_vars>>

\* the model call raises (the provider re-raises what its client raised,
\* anthropic_provider.py:235-240): nothing in chat() catches it
LLMFail ==
    /\ pc = "llm"
    /\ pc' = "raised"
    /\ llm_outstanding' = FALSE
    /\ UNCHANGED <<messages, max_iterations, iteration, calls, ret, turn, history0,
                   next_id, llm_calls, tracker_vars, config_vars, subagent_vars, executor_vars, provider_vars, command_vars>>

\* the first step of the next gathered task (agent.py:165-182)
AutoStart ==
    /\ pc = "auto"
    /\ \E i \in auto_approved_calls(calls) : calls[i].st = "new"
    /\ LET i == NextAuto(calls)
           counts == record_attempt(attempt_counts, calls[i].name)
           cs == Started(calls, i, counts)
       IN  /\ attempt_counts' = counts
           /\ streak' = [streak EXCEPT ![calls[i].name] = @ + 1]
           /\ IF Escaped(cs) THEN Propagate(cs) ELSE Advance(messages, cs)
    /\ UNCHANGED <<max_attempts, max_iterations, turn, history0, next_id, config_vars, subagent_vars, executor_vars, provider_vars, command_vars>>

\* a gathered task resumes after execute_tool (agent.py:184-221); the first
\* steps of all the gathered tasks have run by then
AutoFinish ==
    /\ pc = "auto"
    /\ \A j \in auto_approved_calls(calls) : calls[j].st # "new"
    /\ \E i \in auto_approved_calls(calls), outcome \in {"ok"} \cup FailureKinds :
        /\ calls[i].st = "running"
        /\ LET cs == Finished(calls, i, outcome, attempt_counts)
           IN  /\ attempt_counts' = IF outcome = "ok"
                                    THEN record_success(attempt_counts, calls[i].name)
                                    ELSE attempt_counts
               /\ streak' = IF outcome = "ok" THEN [streak EXCEPT ![calls[i].name] = 0] ELSE streak
               /\ IF Escaped(cs) THEN Propagate(cs) ELSE Advance(messages, cs)
    /\ UNCHANGED <<max_attempts, max_iterations, turn, history0, next_id, config_vars, subagent_vars, executor_vars, provider_vars, command_vars>>

\* the user answers the approval prompt (agent.py:155-182); a KeyboardInterrupt
\* at the prompt is an answer "no" (agent.py:128-130)
GatedAnswer ==
    /\ pc = "gated"
    /\ \E i \in needs_approval_calls(calls), approved \in BOOLEAN :
        /\ calls[i].st = "prompting"
        /\ IF approved
           THEN LET counts == record_attempt(attempt_counts, calls[i].name)
                    cs == Started([calls EXCEPT ![i].approved = TRUE], i, counts)
                IN  /\ attempt_counts' = counts
                    /\ streak' = [streak EXCEPT ![calls[i].name] = @ + 1]
                    /\ IF Escaped(cs) THEN Propagate(cs) ELSE
                       IF cs[i].st = "running"
                       THEN /\ calls' = cs
                            /\ UNCHANGED <<messages, pc, iteration, llm_outstanding, llm_calls, ret>>
                       ELSE Advance(messages, cs)
           ELSE /\ Advance(messages, Rejected(calls, i))
                /\ UNCHANGED <<attempt_counts, streak>>
    /\ UNCHANGED <<max_attempts, max_iterations, turn, history0, next_id, config_vars, subagent_vars, executor_vars, provider_vars, command_vars>>

\* the gated call resumes after execute_tool (agent.py:184-221, 261-262)
GatedFinish ==
    /\ pc = "gated"
    /\ \E i \in needs_approval_calls(calls), outcome \in {"ok"} \cup FailureKinds :
        /\ calls[i].st = "running"
        /\ LET cs == Finished(calls, i, outcome, attempt_counts)
           IN  /\ attempt_counts' = IF outcome = "ok"
                                    THEN record_success(attempt_counts, calls[i].name)
                                    ELSE attempt_counts
               /\ streak' = IF outcome = "ok" THEN [streak EXCEPT ![calls[i].name] = 0] ELSE streak
               /\ IF Escaped(cs) THEN Propagate(cs) ELSE Advance(messages, cs)
    /\ UNCHANGED <<max_attempts, max_iterations, turn, history0, next_id, config_vars, subagent_vars, executor_vars, provider_vars, command_vars>>

\* "except KeyboardInterrupt" of chat() (agent.py:320-325).  The interrupt is
\* raised in the task that runs chat(): during the model call, between the
\* append of the assistant message and the dispatch of its batch (no call of
\* the batch has started), or while a gated call executes in that task.  While
\* chat() is suspended in gather it is not running, and at the approval prompt
\* the interrupt is an answer "no".
Interrupt ==
    /\ \/ pc = "llm"
       \/ pc = "auto" /\ \A i \in DOMAIN calls : calls[i].st = "new"
       \/ pc = "gated" /\ \E i \in DOMAIN calls : calls[i].st = "running"
    /\ messages' = pop_last_if_user(messages)
    /\ calls' = [i \in DOMAIN calls |->
                   IF calls[i].st = "running" THEN [calls[i] EXCEPT !.st = "interrupted"]
                   ELSE IF calls[i].st = "new" THEN [calls[i] EXCEPT !.st = "abandoned"]
                   ELSE calls[i]]
    /\ pc' = "returned"
    /\ ret' = ""
    /\ llm_outstanding' = FALSE
    /\ UNCHANGED <<max_iterations, iteration, turn, history0, next_id, llm_calls, tracker_vars,
                   config_vars, subagent_vars, executor_vars, provider_vars, command_vars>>

Next ==
    \/ \E user_message \in UserInputs : Chat(user_message)
    \/ LLMRespond
    \/ LLMFail
    \/ AutoStart
    \/ AutoFinish
    \/ GatedAnswer
    \/ GatedFinish
    \/ Interrupt

Spec == Init /\ [][Next]_vars

(***************************************************************************)
(* A free-standing ToolExecutionTracker driven by arbitrary calls of its   *)
(* methods, for every limit max_attempts >= 1.                             *)
(***************************************************************************)
InitTracker ==
    /\ tools_config = StudyConfig
    /\ is_subagent = FALSE
    /\ tools = agent_tools(StudyConfig, FALSE)
    /\ tools_by_name = loaded_by_name(StudyConfig)
    /\ messages = <<>>
    /\ attempt_counts = EmptyDict
    /\ max_attempts \in 1..MaxAttemptsLimit
    /\ max_iterations = 0
    /\ pc = "tracker"
    /\ iteration = 0
    /\ calls = <<>>
    /\ ret = "none"
    /\ turn = 0
    /\ next_id = 0
    /\ llm_outstanding = FALSE
    /\ llm_calls = 0
    /\ streak = ZeroStreak
    /\ history0 = <<>>
    /\ args = NoArgs
    /\ run_pc = "none"
    /\ children = <<>>
    /\ tool_result = NoResult
    /\ ExecutorIdle
    /\ ProviderIdle
    /\ CommandIdle

TrackerAttempt(tool_name) ==
    /\ pc = "tracker"
    /\ DictGet(attempt_counts, tool_name, 0) < MaxCount
    /\ attempt_counts' = record_attempt(attempt_counts, tool_name)
    /\ streak' = [streak EXCEPT ![tool_name] = @ + 1]
    /\ UNCHANGED <<agent_vars, max_attempts, config_vars, subagent_vars, executor_vars, provider_vars, command_vars>>

TrackerSuccess(tool_name) ==
    /\ pc = "tracker"
    /\ attempt_counts' = record_success(attempt_counts, tool_name)
    /\ streak' = [streak EXCEPT ![tool_name] = 0]
    /\ UNCHANGED <<agent_vars, max_attempts, config_vars, subagent_vars, executor_vars, provider_vars, command_vars>>

TrackerReset ==
    /\ pc = "tracker"
    /\ attempt_counts' = reset(attempt_counts)
    /\ streak' = ZeroStreak
    /\ UNCHANGED <<agent_vars, max_attempts, config_vars, subagent_vars, executor_vars, provider_vars, command_vars>>

NextTracker ==
    \/ \E tool_name \in ToolNames : TrackerAttempt(tool_name)
    \/ \E tool_name \in ToolNames : TrackerSuccess(tool_name)
    \/ TrackerReset

SpecTracker == InitTracker /\ [][NextTracker]_vars

(***************************************************************************)
(* Properties of the tool-dispatch engine.                                 *)
(***************************************************************************)
\* the batch has been dispatched to the end: every call has its result and
\* _execute_tool_calls_parallel has returned
BatchCompleted ==
    /\ calls # <<>>
    /\ pc \notin {"auto", "gated"}
    /\ \A i \in DOMAIN calls : calls[i].st = "done"

\* the messages the history has gained since the assistant message of the batch
Gained == SubSeq(messages, Len(messages) - Len(calls) + 1, Len(messages))

\* C1: when _execute_tool_calls_parallel completes, the history has gained,
\* right after the assistant message of the batch, exactly one tool-result
\* message per tool call of the batch, carrying that call's id.
C1_OneResultPerCall ==
    BatchCompleted =>
        /\ Len(messages) > Len(calls)
        /\ messages[Len(messages) - Len(calls)].role = "assistant"
        /\ Len(messages[Len(messages) - Len(calls)].tool_calls) = Len(calls)
        /\ \A k \in DOMAIN Gained : Gained[k].role = "tool"
        /\ \A i \in DOMAIN calls :
              /\ messages[Len(messages) - Len(calls)].tool_calls[i].id = calls[i].id
              /\ Cardinality({k \in DOMAIN Gained : Gained[k].tool_call_id = calls[i].id}) = 1

\* a completed batch that mixes a concurrent call, a failure and a rejection
C1_Witness ==
    /\ BatchCompleted
    /\ Len(calls) = 2
    /\ \E i, j \in DOMAIN calls :
          /\ calls[i].name = "nope" /\ calls[i].result.content = "error"
          /\ calls[j].name = "write" /\ calls[j].result.content = "rejected"

InProgress(i) == calls[i].st \in {"prompting", "running"}

\* C2: while an approval-gated call is in progress (prompt or execution),
\* every non-gated call and every earlier gated call of the batch has
\* finished and no later gated call has started.
C2_GatedAlone ==
    \A i \in needs_approval_calls(calls) :
        InProgress(i) =>
            \A j \in DOMAIN calls \ {i} :
                IF j \in auto_approved_calls(calls) \/ j < i
                THEN calls[j].st = "done"
                ELSE calls[j].st = "new"

\* the second of two gated calls executes after the first has finished
C2_Witness ==
    /\ Len(calls) = 2
    /\ needs_approval_calls(calls) = {1, 2}
    /\ calls[1].st = "done"
    /\ calls[2].st = "running"

\* C3: when a call of the concurrent partition has failed, every sibling is
\* still on its way (not started yet, running or done) while the gather
\* waits, and once the gather is over every sibling has finished with a
\* result message of its own, which is in the history when the batch completes.
C3_FailureSparesSiblings ==
    \A a \in auto_approved_calls(calls) :
        calls[a].failed =>
            \A b \in auto_approved_calls(calls) \ {a} :
                IF pc = "auto"
                THEN calls[b].st \in {"new", "running", "done"}
                ELSE /\ calls[b].st = "done"
                     /\ calls[b].result.role = "tool"
                     /\ calls[b].result.tool_call_id = calls[b].id
                     /\ BatchCompleted => \E k \in DOMAIN messages : messages[k] = calls[b].result

\* a failed concurrent call whose sibling went on to succeed
C3_Witness ==
    /\ BatchCompleted
    /\ \E a, b \in auto_approved_calls(calls) :
          /\ a # b
          /\ calls[a].failed
          /\ calls[a].name = "bash"
          /\ calls[b].result.content = "result"

\* the ids of the tool calls the assistant messages of the history hold
AskedIds == UNION {{messages[k].tool_calls[i].id : i \in DOMAIN messages[k].tool_calls} :
                   k \in {x \in DOMAIN messages : messages[x].role = "assistant"}}

ResultsFor(id) == {k \in DOMAIN messages : messages[k].role = "tool" /\ messages[k].tool_call_id = id}

\* C4: whenever chat() has returned, every tool call of an assistant message
\* of the history has exactly one tool-result message in the history.
C4_EveryCallAnswered ==
    pc = "returned" => \A id \in AskedIds : Cardinality(ResultsFor(id)) = 1

(***************************************************************************)
(* Properties of the conversation loop.                                    *)
(***************************************************************************)
\* C6: in one chat() invocation the number of model calls never exceeds
\* max_iterations, and the iteration-limit message is returned only after
\* exactly max_iterations model calls.
C6_ModelCallsBounded ==
    /\ llm_calls <= max_iterations
    /\ (pc = "returned" /\ ret = LimitMessage) => llm_calls = max_iterations

\* the loop ran out of iterations on responses that were never done
C6_Witness ==
    /\ pc = "returned"
    /\ ret = LimitMessage
    /\ max_iterations = MaxIterations
    /\ llm_calls = max_iterations
    /\ \E k \in DOMAIN messages :
          /\ k > Len(history0)
          /\ messages[k].role = "assistant"
          /\ messages[k].tool_calls = <<>>

\* C7: a model call is outstanding only when every tool call of the previous
\* batch is over, and a batch is under dispatch only when no model call is
\* outstanding and the assistant message that asked for it is in the history.
C7_StrictlySequential ==
    /\ llm_outstanding => \A i \in DOMAIN calls : calls[i].st = "done"
    /\ (\E i \in DOMAIN calls : calls[i].st \in {"new", "prompting", "running"}) =>
          /\ ~llm_outstanding
          /\ pc \in {"auto", "gated"}
          /\ \E k \in DOMAIN messages :
                /\ messages[k].role = "assistant"
                /\ \A i \in DOMAIN calls : \E t \in DOMAIN messages[k].tool_calls :
                       messages[k].tool_calls[t].id = calls[i].id

\* the second model call of a turn is issued after a batch of two concurrent calls
C7_Witness ==
    /\ llm_outstanding
    /\ iteration = 2
    /\ Len(calls) = 2
    /\ auto_approved_calls(calls) = {1, 2}

(***************************************************************************)
(* Properties of the retry tracker.                                        *)
(***************************************************************************)
\* C8: can_retry(name) is true exactly while fewer than max_attempts attempts
\* of name have been recorded since its last record_success (or the last
\* reset); so it is false after max_attempts of them and true again after
\* one record_success.
C8_CanRetryUntilLimit ==
    \A n \in ToolNames :
        can_retry(attempt_counts, n, max_attempts) <=> streak[n] < max_attempts

\* max_attempts attempts in a row have exhausted the budget of one tool, while
\* a tool with a success after its attempts may be retried
C8_Witness ==
    \E n, m \in ToolNames :
        /\ streak[n] = max_attempts
        /\ ~can_retry(attempt_counts, n, max_attempts)
        /\ m \in DOMAIN attempt_counts
        /\ attempt_counts[m] = 0
        /\ can_retry(attempt_counts, m, max_attempts)

\* C9: the attempt number recorded for an execution never exceeds
\* max_attempts (a tool that failed max_attempts times in a row is not
\* executed again in the turn).
C9_AttemptWithinLimit ==
    \A i \in DOMAIN calls : calls[i].attempt <= max_attempts

\* the names of the tool calls of the history h whose result is an error
FailedNames(h) ==
    {n \in ToolNames :
        \E k \in DOMAIN h :
            /\ h[k].role = "assistant"
            /\ \E y \in DOMAIN h[k].tool_calls :
                  /\ h[k].tool_calls[y].name = n
                  /\ \E r \in DOMAIN h : /\ h[r].role = "tool"
                                         /\ h[r].content = "error"
                                         /\ h[r].tool_call_id = h[k].tool_calls[y].id}

\* C10: the counters are cleared when chat() starts and at no other point of
\* the turn: the counter of a tool is the number of its executions in this
\* turn since its last success in this turn, and the attempt number of an
\* execution is one more than that number was when it started.
C10_CountersClearedPerTurn ==
    /\ \A n \in ToolNames : DictGet(attempt_counts, n, 0) = streak[n]
    /\ \A i \in DOMAIN calls : calls[i].attempt = calls[i].nth

\* in the second turn a tool that failed in the first turn runs as attempt 1
C10_Witness ==
    /\ turn = 2
    /\ \E i \in DOMAIN calls :
          /\ calls[i].st = "running"
          /\ calls[i].attempt = 1
          /\ calls[i].name \in FailedNames(history0)

(***************************************************************************)
(* Construction of an agent (OpusAgent.__init__) for every configuration   *)
(* of the tools named in ConfigNames, as top-level agent and as sub-agent. *)
(***************************************************************************)
ConfigEntries == [enabled : BOOLEAN, source : {"none", "ok", "bad"}, approval : BOOLEAN]

Configs == UNION {[S -> ConfigEntries] : S \in SUBSET Range(ConfigNames)}

InitConstruct ==
    /\ tools_config \in Configs
    /\ is_subagent \in BOOLEAN
    /\ tools = <<>>
    /\ tools_by_name = EmptyDict
    /\ messages = <<>>
    /\ attempt_counts = EmptyDict
    /\ max_attempts = MaxRetryAttempts
    /\ max_iterations = 0
    /\ pc = "new"
    /\ iteration = 0
    /\ calls = <<>>
    /\ ret = "none"
    /\ turn = 0
    /\ next_id = 0
    /\ llm_outstanding = FALSE
    /\ llm_calls = 0
    /\ streak = ZeroStreak
    /\ history0 = <<>>
    /\ args = NoArgs
    /\ run_pc = "none"
    /\ children = <<>>
    /\ tool_result = NoResult
    /\ ExecutorIdle
    /\ ProviderIdle
    /\ CommandIdle

\* OpusAgent.__init__ (agent.py:52-94)
Construct ==
    /\ pc = "new"
    /\ pc' = "idle"
    /\ tools' = agent_tools(tools_config, is_subagent)
    /\ tools_by_name' = loaded_by_name(tools_config)
    /\ UNCHANGED <<tools_config, is_subagent, messages, max_iterations, iteration, calls,
                   ret, turn, next_id, llm_outstanding, llm_calls, history0, tracker_vars,
                   subagent_vars, executor_vars, provider_vars, command_vars>>

SpecConstruct == InitConstruct /\ [][Construct]_vars

\* C5: an agent constructed with is_subagent=True has run_subagents neither
\* in the tool list handed to the provider nor in the registry that resolves
\* tool calls.
C5_SubagentCannotSpawn ==
    (pc = "idle" /\ is_subagent) =>
        /\ \A i \in DOMAIN tools : tools[i].name # "run_subagents"
        /\ "run_subagents" \notin DOMAIN tools_by_name

(***************************************************************************)
(* Further properties of the retry tracker.                                *)
(***************************************************************************)
\* C11: record_attempt(A) and record_success(A) leave the counter of every
\* other tool name B as it was (present or absent, and its value).
C11_CountersPerTool ==
    [][\A a \in ToolNames :
          (TrackerAttempt(a) \/ TrackerSuccess(a)) =>
              \A b \in ToolNames \ {a} :
                  /\ (b \in DOMAIN attempt_counts') <=> (b \in DOMAIN attempt_counts)
                  /\ DictGet(attempt_counts', b, 0) = DictGet(attempt_counts, b, 0)]_vars

\* tool A has had a success (its counter is present and 0) while tool B still
\* has a recorded attempt and a third tool has none at all
C11_Witness ==
    \E a, b, c \in ToolNames :
        /\ a \in DOMAIN attempt_counts /\ attempt_counts[a] = 0
        /\ b \in DOMAIN attempt_counts /\ attempt_counts[b] = 1 /\ streak[b] = 1
        /\ c \notin DOMAIN attempt_counts
        /\ pc = "tracker"

(***************************************************************************)
(* Properties of the error results.                                        *)
(***************************************************************************)
\* C12: the result of every failed execution is an error text that holds the
\* tool name, the failure message, the arguments, the recovery hints and the
\* remaining retry budget max_attempts - attempt, whatever the attempt number.
C12_ErrorTextComplete ==
    \A i \in DOMAIN calls :
        (calls[i].st = "done" /\ calls[i].failed) =>
            /\ calls[i].result.role = "tool"
            /\ calls[i].result.content = "error"
            /\ calls[i].result.text.tool_name = calls[i].name
            /\ calls[i].result.text.error # NoErrorMessage
            /\ calls[i].result.text.arguments
            /\ calls[i].result.text.hints
            /\ calls[i].result.text.remaining = {max_attempts - calls[i].attempt}

C14_PriorHistoryPreserved ==
    (pc = "returned" /\ ret = "") =>
        /\ Len(messages) >= Len(history0)
        /\ SubSeq(messages, 1, Len(history0)) = history0

(***************************************************************************)
(* Properties of the start and of the end of a turn.                       *)
(***************************************************************************)
\* C15: chat(m) appends the user message m to the history unless m is empty
\* and the history is non-empty, in which case it appends nothing.
C15_UserMessageAppended ==
    [][\A m \in UserInputs :
          Chat(m) =>
              messages' = IF m = "" /\ messages # <<>>
                          THEN messages
                          ELSE Append(messages, UserMsg(m))]_vars

\* the first model call of chat("") on the pre-seeded history of a sub-agent is
\* outstanding and the history is the pre-seeded one
C15_Witness ==
    /\ is_subagent
    /\ turn = 1
    /\ pc = "llm"
    /\ iteration = 1
    /\ messages = initial_messages(TRUE)
    /\ history0 = messages

\* the last assistant message of the history h is followed by exactly one
\* tool-result message for each of its tool calls and by nothing else
LastAssistantAnswered(h) ==
    LET A == {k \in DOMAIN h : h[k].role = "assistant"}
    IN  A # {} =>
            LET last == CHOOSE k \in A : \A x \in A : x <= k
            IN  /\ \A j \in (last + 1)..Len(h) : h[j].role = "tool"
                /\ \A t \in DOMAIN h[last].tool_calls :
                      Cardinality({j \in (last + 1)..Len(h) :
                                      h[j].tool_call_id = h[last].tool_calls[t].id}) = 1
                /\ Len(h) - last = Len(h[last].tool_calls)

\* C16: when chat() returns the iteration-limit message, max_iterations model
\* calls have been made and the tool calls of the last assistant message have
\* their results in the history; and a chat() that follows runs a normal turn
\* on top of that history (the history is kept, the user message is appended
\* and the first model call is issued).
C16_LimitLeavesValidHistory ==
    /\ []((pc = "returned" /\ ret = LimitMessage) =>
             /\ llm_calls = max_iterations
             /\ LastAssistantAnswered(messages))
    /\ [][\A m \in UserInputs :
             (pc = "returned" /\ ret = LimitMessage /\ Chat(m)) =>
                 /\ Len(messages') >= Len(messages)
                 /\ SubSeq(messages', 1, Len(messages)) = messages
                 /\ max_iterations > 0 => (pc' = "llm" /\ llm_calls' = 1 /\ iteration' = 1)]_vars

\* the first model call of a follow-up turn is outstanding, on top of a
\* history that ends with the tool results of a turn that ran out of iterations
C16_Witness ==
    /\ turn = 2
    /\ pc = "llm"
    /\ ret = LimitMessage
    /\ history0 # <<>>
    /\ history0[Len(history0)].role = "tool"
    /\ LastAssistantAnswered(history0)
    /\ Len(messages) = Len(history0) + 1

(***************************************************************************)
(* Properties of failures.                                                 *)
(***************************************************************************)
\* C17: when the model call raises, the error leaves chat(): nothing is
\* returned, nothing is appended to the history and no model call is issued;
\* and after chat() has raised, the next step of the agent is a new chat().
C17_ProviderErrorPropagates ==
    /\ [][LLMFail =>
             /\ pc' = "raised"
             /\ ~llm_outstanding'
             /\ llm_calls' = llm_calls
             /\ messages' = messages
             /\ ret' = ret]_vars
    /\ [][pc = "raised" => (turn' = turn + 1 /\ llm_calls' <= 1)]_vars

\* the second model call of a turn has raised, after a batch whose results are
\* in the history
C17_Witness ==
    /\ pc = "raised"
    /\ iteration = 2
    /\ llm_calls = 2
    /\ calls # <<>>
    /\ \A i \in DOMAIN calls : calls[i].st = "done"
    /\ messages[Len(messages)].role = "tool"

C19_RejectionSkipsExecutor ==
    \A i \in needs_approval_calls(calls) :
        /\ calls[i].st \in {"running", "interrupted", "raised"} => calls[i].approved
        /\ calls[i].nth >= 1 => calls[i].approved
        /\ calls[i].approved => calls[i].st \notin {"new", "prompting", "abandoned"}
        /\ (calls[i].st = "done" /\ ~calls[i].approved) =>
              /\ calls[i].result.role = "tool"
              /\ calls[i].result.tool_call_id = calls[i].id
              /\ calls[i].result.content = "rejected"
              /\ calls[i].nth = 0
              /\ calls[i].attempt = 0
        /\ (calls[i].st = "done" /\ calls[i].approved) =>
              calls[i].result.content \in {"result", "error"}

\* of two gated calls the first was rejected and the second, approved, is with
\* the executor
C19_Witness ==
    /\ Len(calls) = 2
    /\ needs_approval_calls(calls) = {1, 2}
    /\ calls[1].st = "done"
    /\ calls[1].result.content = "rejected"
    /\ ~calls[1].approved
    /\ calls[2].st = "running"
    /\ calls[2].approved

(***************************************************************************)
(* The tool run_subagents (tools/run_subagents.py): one call of            *)
(* execute_run_subagents with arguments args.  A value of "tasks" is       *)
(* described by its Python type, its length and, for a list, its items;    *)
(* an item is described by what _spawn_subagent distinguishes.             *)
(***************************************************************************)
TaskSpecs == {"str", "dict", "dict_context", "dict_bad_context", "dict_no_prompt", "number"}

ListOf(items) == [type |-> "list", size |-> Len(items), items |-> items]

TasksValues ==
    {NoTasks, [type |-> "none", size |-> 0, items |-> <<>>]}
    \cup {[type |-> t, size |-> n, items |-> <<>>] : t \in {"str", "dict"}, n \in {0, 1}}
    \cup {ListOf(l) : l \in UNION {[1..n -> TaskSpecs] : n \in 0..MaxTasks}}
    \cup {ListOf([i \in 1..(MAX_SUBAGENTS + 1) |-> "str"])}

ExecutionModes == {"absent", "parallel", "sequential", "serial"}

\* args.get("tasks", [])
tasks_of(a) == IF a.tasks.type = "absent" THEN ListOf(<<>>) ELSE a.tasks

\* args.get("execution_mode", "parallel")
execution_mode_of(a) == IF a.execution_mode = "absent" THEN "parallel" ELSE a.execution_mode

\* Python's truth value of a tasks value: None and empty containers are false
Truthy(v) == v.size > 0

\* a variant of the validation without the limit on the number of tasks
validate_without_limit(a) ==
    IF ~Truthy(tasks_of(a)) THEN "Missing required parameter: tasks"
    ELSE IF tasks_of(a).type # "list" THEN "tasks must be a list"
    ELSE IF tasks_of(a).size = 0 THEN "tasks list cannot be empty"
    ELSE IF execution_mode_of(a) \notin {"parallel", "sequential"}
    THEN "execution_mode must be 'parallel' or 'sequential'"
    ELSE "ok"

\* the validation of execute_run_subagents (run_subagents.py:334-348): the
\* error it returns, or "ok"
validate(a) ==
    IF ~Truthy(tasks_of(a)) THEN "Missing required parameter: tasks"
    ELSE IF tasks_of(a).type # "list" THEN "tasks must be a list"
    ELSE IF tasks_of(a).size = 0 THEN "tasks list cannot be empty"
    ELSE IF tasks_of(a).size > MAX_SUBAGENTS THEN "Cannot run more than 10 sub-agents at once"
    ELSE IF execution_mode_of(a) \notin {"parallel", "sequential"}
    THEN "execution_mode must be 'parallel' or 'sequential'"
    ELSE "ok"

NoTaskResult == [task_id |-> -1, status |-> "none", error |-> "", output |-> {}]

\* the dict a _spawn_subagent returns
TaskResult(task_id, status, error) ==
    [task_id |-> task_id, status |-> status, error |-> error, output |-> {}]

\* the result of a task whose chat returned: the returned text is its output
\* (run_subagents.py:228-234)
SuccessResult(task_id, output) ==
    [task_id |-> task_id, status |-> "success", error |-> "", output |-> {output}]

\* _build_initial_messages: the context message, when there is a context,
\* then the task prompt
build_initial_messages(has_context) ==
    IF has_context THEN <<UserMsg("context"), UserMsg("task")>> ELSE <<UserMsg("task")>>

\* a variant of the construction in which the child starts from the history
\* of the agent that called the tool
new_agent_messages_inherited(initial) == messages \o initial

\* OpusAgent.__init__ for a child: self.messages is a new list that receives
\* initial_messages (agent.py:54, 78-79)
new_agent_messages(initial) == initial

\* config.max_iterations of the OpusConfig object local to _spawn_subagent
\* after run_subagents.py:193-202 (OpusConfig has no subagent_max_turns)
spawn_config_max_iterations(max_turns) ==
    IF max_turns # {} THEN CHOOSE n \in max_turns : TRUE ELSE DefaultSubagentTurns

\* the task at index i of the list (task_id i - 1 of enumerate) before its
\* _spawn_subagent has run
\* hasattr(config, 'default_timeout'): OpusConfig.__init__ sets the attribute
\* for every configuration (config.py:44)
HasDefaultTimeout == TRUE

\* the timeout of the wait_for around the child's chat (run_subagents.py:213)
\* for a configuration whose default_timeout is the given number
subagent_timeout(default_timeout) ==
    IF HasDefaultTimeout THEN default_timeout ELSE DEFAULT_SUBAGENT_TIMEOUT

NewChild(spec, i) ==
    [task_id |-> i - 1, spec |-> spec, st |-> "pending", prepare_context_called |-> FALSE,
     constructed |-> FALSE, chat |-> "none", outcome |-> "none", timeout_fired |-> FALSE,
     timeout |-> 0, ret |-> "none",
     config_max_iterations |-> 0, max_iterations |-> 0, llm_calls |-> 0,
     messages |-> <<>>, attempt_counts |-> EmptyDict, result |-> NoTaskResult]

\* a variant of _spawn_subagent in which a failure of _prepare_context is not
\* caught where it is raised
SpawnedContextUncaught(c, constructs, max_turns, file_max_iterations) ==
    CASE c.spec = "number" -> [c EXCEPT !.st = "raised", !.outcome = "ill_formed"]
      [] c.spec = "dict_no_prompt" ->
            [c EXCEPT !.st = "done", !.outcome = "ill_formed",
                      !.result = TaskResult(c.task_id, "error", "Task dict must have 'prompt' field")]
      [] c.spec = "dict_bad_context" ->
            [c EXCEPT !.st = "raised", !.outcome = "context_failed",
                      !.prepare_context_called = TRUE]
      [] OTHER ->
            IF constructs
            THEN [c EXCEPT !.st = "running",
                           !.prepare_context_called = (c.spec = "dict_context"),
                           !.constructed = TRUE,
                           !.chat = "running",
                           !.config_max_iterations = spawn_config_max_iterations(max_turns),
                           !.max_iterations = file_max_iterations,
                           !.timeout = subagent_timeout(timeout),
                           !.messages = new_agent_messages(build_initial_messages(c.spec = "dict_context")),
                           !.attempt_counts = EmptyDict]
            ELSE [c EXCEPT !.st = "done", !.outcome = "construct_failed",
                           !.prepare_context_called = (c.spec = "dict_context"),
                           !.result = TaskResult(c.task_id, "error", "exception")]

\* _spawn_subagent up to the await of the child's chat (run_subagents.py:
\* 158-221) for a child c; constructs tells whether OpusAgent(...) succeeds,
\* max_turns is the argument and file_max_iterations the max_iterations of the
\* configuration file.  The handler of line 247 evaluates task_spec.get(...)
\* for a task that is not a string, which raises for a task that is no dict
\* either.  The agent is built from config_path alone (line 206-210), so its
\* max_iterations is the file's, not that of the local config object.
Spawned(c, constructs, max_turns, file_max_iterations) ==
    CASE c.spec = "number" -> [c EXCEPT !.st = "raised", !.outcome = "ill_formed"]
      [] c.spec = "dict_no_prompt" ->
            [c EXCEPT !.st = "done", !.outcome = "ill_formed",
                      !.result = TaskResult(c.task_id, "error", "Task dict must have 'prompt' field")]
      [] c.spec = "dict_bad_context" ->
            [c EXCEPT !.st = "done", !.outcome = "context_failed",
                      !.prepare_context_called = TRUE,
                      !.result = TaskResult(c.task_id, "error", "Context preparation failed")]
      [] OTHER ->
            IF constructs
            THEN [c EXCEPT !.st = "running",
                           !.prepare_context_called = (c.spec = "dict_context"),
                           !.constructed = TRUE,
                           !.chat = "running",
                           !.config_max_iterations = spawn_config_max_iterations(max_turns),
                           !.max_iterations = file_max_iterations,
                           !.timeout = subagent_timeout(timeout),
                           !.messages = new_agent_messages(build_initial_messages(c.spec = "dict_context")),
                           !.attempt_counts = EmptyDict]
            ELSE [c EXCEPT !.st = "done", !.outcome = "construct_failed",
                           !.prepare_context_called = (c.spec = "dict_context"),
                           !.result = TaskResult(c.task_id, "error", "exception")]

\* _spawn_subagent after the await of the child's chat (run_subagents.py:
\* 215-257): chat returned, was cancelled by the timeout of wait_for, or raised
\* a variant of Completed that reports a chat that ran out of iterations as an error
CompletedLimitIsError(c, outcome) ==
    [c EXCEPT !.st = "done",
              !.outcome = outcome,
              !.chat = CASE outcome = "success" -> "returned"
                         [] outcome = "timeout" -> "cancelled"
                         [] OTHER -> "raised",
              !.result = CASE outcome = "success" /\ c.ret # LimitMessage -> SuccessResult(c.task_id, c.ret)
                           [] outcome = "success" /\ c.ret = LimitMessage ->
                                  TaskResult(c.task_id, "error", "exception")
                           [] outcome = "timeout" -> TaskResult(c.task_id, "error", "Sub-agent timed out")
                           [] OTHER -> TaskResult(c.task_id, "error", "exception")]

Completed(c, outcome) ==
    [c EXCEPT !.st = "done",
              !.outcome = outcome,
              !.chat = CASE outcome = "success" -> "returned"
                         [] outcome = "timeout" -> "cancelled"
                         [] OTHER -> "raised",
              !.result = CASE outcome = "success" -> SuccessResult(c.task_id, c.ret)
                           [] outcome = "timeout" -> TaskResult(c.task_id, "error", "Sub-agent timed out")
                           [] OTHER -> TaskResult(c.task_id, "error", "exception")]

\* the model call of the child's chat has returned and the chat is suspended
\* in ThinkingStatus.__aexit__, which awaits the status task it has cancelled
\* (agent.py:298-299, console_helper.py:296-303)
StatusExit(c) == [c EXCEPT !.chat = "status_exit"]

\* the rest of one iteration of the loop of the child's chat("") (agent.py:
\* 281-318): the empty user message is not appended to the seeded history; the
\* model call answered with its final text ("done") or asked for the tool
\* bash, which succeeds ("tool_ok") or fails ("tool_failed"); the chat returns
\* on the final text or when the iteration count reaches the agent's
\* max_iterations (with the limit message), and else is suspended in the
\* next model call; a KeyboardInterrupt raised in the chat ("interrupted")
\* makes it clean the history and return the empty string (agent.py:320-325)
ChatStep(c, kind) ==
    LET n == c.llm_calls + 1
        counts0 == IF c.llm_calls = 0 THEN reset(c.attempt_counts) ELSE c.attempt_counts
        counts1 == record_attempt(counts0, "bash")
        asked == Msg("assistant", "", <<[id |-> n, name |-> "bash"]>>, 0, 0, NoText)
        stepped ==
            CASE kind = "done" ->
                    [c EXCEPT !.llm_calls = n,
                              !.attempt_counts = counts0,
                              !.ret = "text",
                              !.messages = Append(@, Msg("assistant", "text", <<>>, 0, 0, NoText))]
              [] kind = "interrupted" ->
                    [c EXCEPT !.llm_calls = n,
                              !.attempt_counts = counts0,
                              !.ret = "",
                              !.messages = pop_last_if_user(@)]
              [] kind = "tool_ok" ->
                    [c EXCEPT !.llm_calls = n,
                              !.attempt_counts = record_success(counts1, "bash"),
                              !.ret = IF n >= c.max_iterations THEN LimitMessage ELSE c.ret,
                              !.messages = @ \o <<asked, format_tool_result(n, "result", 0, NoText)>>]
              [] OTHER ->
                    [c EXCEPT !.llm_calls = n,
                              !.attempt_counts = counts1,
                              !.ret = IF n >= c.max_iterations THEN LimitMessage ELSE c.ret,
                              !.messages = @ \o <<asked, format_tool_result(n, "error", counts1["bash"], NoText)>>]
    IN  IF kind \in {"done", "interrupted"} \/ n >= c.max_iterations
        THEN Completed(stepped, "success")
        ELSE [stepped EXCEPT !.chat = "running"]

\* asyncio.wait_for(sub_agent.chat(""), timeout=timeout) of child i runs out
\* (run_subagents.py:218-245): it cancels the chat it wraps and waits for it
\* to end.  A chat suspended in a model call or in a tool ends with
\* CancelledError and _spawn_subagent gets TimeoutError; a chat suspended in
\* the __aexit__ of a status indicator receives the CancelledError inside
\* "except asyncio.CancelledError: pass" (console_helper.py:299-303), goes on,
\* and wait_for hands back whatever it returns at its end
TimedOut(cs, i) ==
    IF cs[i].chat = "status_exit"
    THEN [cs EXCEPT ![i].timeout_fired = TRUE]
    ELSE [cs EXCEPT ![i] = Completed([cs[i] EXCEPT !.timeout_fired = TRUE], "timeout")]

\* the subsequence of results with the given status, as the list
\* comprehensions of _aggregate_results build it
WithStatus(results, status) == SelectSeq(results, LAMBDA r : r.status = status)

\* a variant of the report that lists the tasks in the order of the results
report_in_task_order(results) ==
    [k \in DOMAIN results |->
        [section |-> IF results[k].status = "success" THEN "SUCCESSFUL TASKS" ELSE "FAILED TASKS",
         task_id |-> results[k].task_id]]

\* _aggregate_results: the task sections of the text, in the order written
\* (run_subagents.py:286-309)
aggregate_results(results) ==
    [k \in 1..Len(WithStatus(results, "success")) |->
        [section |-> "SUCCESSFUL TASKS", task_id |-> WithStatus(results, "success")[k].task_id]]
    \o
    [k \in 1..Len(WithStatus(results, "error")) |->
        [section |-> "FAILED TASKS", task_id |-> WithStatus(results, "error")[k].task_id]]

\* metadata["execution_summary"] (run_subagents.py:377-387)
execution_summary(results) ==
    [total_tasks |-> Len(results),
     successful |-> Len(WithStatus(results, "success")),
     failed |-> Len(WithStatus(results, "error"))]

MaxTurnsValues == {{}} \cup {{n} : n \in 1..MaxIterations}

ArgsValues == [tasks : TasksValues, execution_mode : ExecutionModes, max_turns : MaxTurnsValues]

\* the call of the tool that the agent's model asked for
RunSubagentsCall == [id |-> 1, name |-> "run_subagents"]

\* the history of the calling agent when it called the tool: the user message
\* and the assistant message asking for the call (agent.py:286, 302-303)
CallerHistory == <<UserMsg("hi"), Msg("assistant", "", <<RunSubagentsCall>>, 0, 0, NoText)>>

\* the agent is suspended in the executor on a call of run_subagents that its
\* model asked for: the attempt has been recorded (agent.py:166)
InitSubagents ==
    /\ args \in ArgsValues
    /\ run_pc = "called"
    /\ children = <<>>
    /\ tool_result = NoResult
    /\ tool = NoTool
    /\ timeout = DefaultTimeout
    /\ exec_pc = "none"
    /\ process = "none"
    /\ descendant = "none"
    /\ elapsed = 0
    /\ exec_result = NoExecResult
    /\ ProviderIdle
    /\ CommandIdle
    /\ tools_config = StudyConfig
    /\ is_subagent = FALSE
    /\ tools = agent_tools(StudyConfig, FALSE)
    /\ tools_by_name = loaded_by_name(StudyConfig)
    /\ messages = CallerHistory
    /\ attempt_counts = record_attempt(EmptyDict, "run_subagents")
    /\ max_attempts = MaxRetryAttempts
    /\ max_iterations \in 1..MaxIterations
    /\ pc = "run_subagents"
    /\ iteration = 1
    /\ calls = <<>>
    /\ ret = "none"
    /\ turn = 1
    /\ next_id = 1
    /\ llm_outstanding = FALSE
    /\ llm_calls = 1
    /\ streak = ZeroStreak
    /\ history0 = <<>>

\* execute_run_subagents up to the first spawn (run_subagents.py:330-352)
Validate ==
    /\ run_pc = "called"
    /\ IF validate(args) # "ok"
       THEN /\ run_pc' = "returned"
            /\ tool_result' = [NoResult EXCEPT !.kind = "error", !.error = validate(args)]
            /\ children' = <<>>
       ELSE /\ run_pc' = "spawning"
            /\ tool_result' = tool_result
            /\ children' = [i \in 1..tasks_of(args).size |-> NewChild(tasks_of(args).items[i], i)]
    /\ UNCHANGED <<args, agent_vars, tracker_vars, config_vars, executor_vars, provider_vars, command_vars>>

\* in parallel mode the gathered tasks run their first steps in list order
\* before any of them is resumed
AllStarted == execution_mode_of(args) = "parallel" => \A j \in DOMAIN children : children[j].st # "pending"

\* the first step of the next _spawn_subagent: in parallel mode the gathered
\* tasks start in list order, in sequential mode a task starts when the one
\* before it has returned
ChildStart ==
    /\ run_pc = "spawning"
    /\ \E i \in DOMAIN children, constructs \in BOOLEAN :
        /\ children[i].st = "pending"
        /\ \A j \in DOMAIN children : j < i => children[j].st # "pending"
        /\ execution_mode_of(args) = "sequential" =>
              \A j \in DOMAIN children : j < i => children[j].st = "done"
        /\ children' = [children EXCEPT ![i] = Spawned(children[i], constructs, args.max_turns, max_iterations)]
    /\ UNCHANGED <<args, run_pc, tool_result, agent_vars, tracker_vars, config_vars, executor_vars, provider_vars, command_vars>>

\* the model call a child's chat is suspended in returns; a child that the
\* call no longer waits for still runs to its end
ChildCallReturns ==
    /\ run_pc \in {"spawning", "returned", "appended"}
    /\ AllStarted
    /\ \E i \in DOMAIN children :
        /\ children[i].st = "running"
        /\ children[i].chat = "running"
        /\ children' = [children EXCEPT ![i] = StatusExit(children[i])]
    /\ UNCHANGED <<args, run_pc, tool_result, agent_vars, tracker_vars, config_vars, executor_vars, provider_vars, command_vars>>

\* a child's chat resumes after the status indicator and runs the rest of the
\* iteration
ChildChat ==
    /\ run_pc \in {"spawning", "returned", "appended"}
    /\ \E i \in DOMAIN children, kind \in {"done", "tool_ok", "tool_failed", "interrupted"} :
        /\ children[i].st = "running"
        /\ children[i].chat = "status_exit"
        /\ children' = [children EXCEPT ![i] = ChatStep(children[i], kind)]
    /\ UNCHANGED <<args, run_pc, tool_result, agent_vars, tracker_vars, config_vars, executor_vars, provider_vars, command_vars>>

\* the timeout of a child's wait_for runs out
ChildTimeout ==
    /\ run_pc \in {"spawning", "returned", "appended"}
    /\ AllStarted
    /\ \E i \in DOMAIN children :
        /\ children[i].st = "running"
        /\ ~children[i].timeout_fired
        /\ children' = TimedOut(children, i)
    /\ UNCHANGED <<args, run_pc, tool_result, agent_vars, tracker_vars, config_vars, executor_vars, provider_vars, command_vars>>

\* the model call of a child's chat raises: chat lets it through (agent.py:
\* 292-325) and _spawn_subagent turns it into an error result
ChildRaise ==
    /\ run_pc \in {"spawning", "returned", "appended"}
    /\ AllStarted
    /\ \E i \in DOMAIN children :
        /\ children[i].st = "running"
        /\ children[i].chat = "running"
        /\ children' = [children EXCEPT ![i] =
                            Completed([children[i] EXCEPT !.llm_calls = @ + 1], "exception")]
    /\ UNCHANGED <<args, run_pc, tool_result, agent_vars, tracker_vars, config_vars, executor_vars, provider_vars, command_vars>>

\* every _spawn_subagent has returned: the aggregated result (run_subagents.py:371-398)
ReturnResults ==
    /\ run_pc = "spawning"
    /\ \A i \in DOMAIN children : children[i].st = "done"
    /\ run_pc' = "returned"
    /\ LET results == [i \in DOMAIN children |-> children[i].result]
       IN  tool_result' = [kind |-> "output", error |-> "", results |-> results,
                           report |-> aggregate_results(results),
                           summary |-> execution_summary(results)]
    /\ UNCHANGED <<args, children, agent_vars, tracker_vars, config_vars, executor_vars, provider_vars, command_vars>>

\* an exception left a _spawn_subagent: gather, or the await of the loop,
\* re-raises it and the handler of run_subagents.py:400-402 returns one error
ReturnError ==
    /\ run_pc = "spawning"
    /\ \E i \in DOMAIN children : children[i].st = "raised"
    /\ AllStarted
    /\ run_pc' = "returned"
    /\ tool_result' = [NoResult EXCEPT !.kind = "error", !.error = "Error running sub-agents"]
    /\ UNCHANGED <<args, children, agent_vars, tracker_vars, config_vars, executor_vars, provider_vars, command_vars>>

\* the calling agent's history after the call: the results of the batch, here
\* one message, are appended (agent.py:265-266)
history_after_call(msgs, result_message) == Append(msgs, result_message)

\* execute_tool has returned the dict of execute_run_subagents: the rest of
\* _execute_single_tool and of _execute_tool_calls_parallel in the calling
\* agent (agent.py:184-198, 265-266)
AppendToolResult ==
    /\ run_pc = "returned"
    /\ run_pc' = "appended"
    /\ attempt_counts' = record_success(attempt_counts, "run_subagents")
    /\ messages' = history_after_call(messages, format_tool_result(RunSubagentsCall.id, "result", 0, NoText))
    /\ UNCHANGED <<args, children, tool_result, max_iterations, pc, iteration, calls, ret, turn,
                   next_id, llm_outstanding, llm_calls, history0, max_attempts, streak, config_vars, executor_vars, provider_vars, command_vars>>

NextSubagents ==
    \/ Validate
    \/ ChildStart
    \/ ChildCallReturns
    \/ ChildChat
    \/ ChildTimeout
    \/ ChildRaise
    \/ ReturnResults
    \/ ReturnError
    \/ AppendToolResult

SpecSubagents == InitSubagents /\ [][NextSubagents]_vars

\* the arguments are invalid: tasks is not a list, or is an empty list, or has
\* more than 10 items, or the mode is neither "parallel" nor "sequential"
InvalidArgs ==
    \/ args.tasks.type # "list"
    \/ args.tasks.size = 0
    \/ args.tasks.size > 10
    \/ args.execution_mode \notin {"absent", "parallel", "sequential"}

\* C20: for invalid arguments execute_run_subagents never spawns (no child
\* exists, so no context is prepared, no agent is constructed and no model call
\* is made) and what it returns is an error result.
C20_InvalidInputRejected ==
    (run_pc # "none" /\ InvalidArgs) =>
        /\ children = <<>>
        /\ run_pc # "spawning"
        /\ run_pc = "returned" => (tool_result.kind = "error" /\ tool_result.results = <<>>)

\* a list of 11 tasks has been rejected
C20_Witness ==
    /\ run_pc = "returned"
    /\ args.tasks.type = "list"
    /\ args.tasks.size = MAX_SUBAGENTS + 1
    /\ args.execution_mode = "parallel"
    /\ tool_result.error = "Cannot run more than 10 sub-agents at once"

\* C21: for an argument that passes validation, execute_run_subagents returns
\* the aggregated output with one result per task, in task order, each with
\* status success or error; it never returns one error for the whole batch,
\* in whatever way a task fails.
C21_PerTaskResults ==
    (run_pc = "returned" /\ validate(args) = "ok") =>
        /\ tool_result.kind = "output"
        /\ Len(tool_result.results) = tasks_of(args).size
        /\ \A i \in DOMAIN tool_result.results :
              /\ tool_result.results[i].task_id = i - 1
              /\ tool_result.results[i].status \in {"success", "error"}

\* the entries of a task list that _spawn_subagent accepts and whose context,
\* if any, can be prepared
WellFormed == {"str", "dict", "dict_context"}

\* C22: a task whose context cannot be prepared gets an error result of its
\* own and no agent is constructed for it (no chat, no model call); it never
\* turns into an error of the batch and never keeps a sibling from being
\* spawned: in sequential mode the next task can start as soon as it has
\* returned, and in the aggregated output every sibling reports the status of
\* its own run.
C22_ContextFailureIsLocal ==
    /\ \A i \in DOMAIN children :
          (children[i].spec = "dict_bad_context" /\ children[i].st # "pending") =>
              /\ children[i].st = "done"
              /\ children[i].result = TaskResult(i - 1, "error", "Context preparation failed")
              /\ children[i].prepare_context_called
              /\ ~children[i].constructed
              /\ children[i].chat = "none"
              /\ children[i].llm_calls = 0
    /\ (run_pc = "returned" /\ validate(args) = "ok" /\ tool_result.kind = "error") =>
          \E i \in DOMAIN children :
              children[i].st = "raised" /\ children[i].spec # "dict_bad_context"
    /\ \A i \in DOMAIN children :
          (/\ run_pc = "spawning"
           /\ children[i].spec = "dict_bad_context"
           /\ children[i].st = "done"
           /\ i + 1 \in DOMAIN children
           /\ children[i + 1].st = "pending") => ENABLED ChildStart
    /\ (run_pc = "returned" /\ tool_result.kind = "output") =>
          \A i \in DOMAIN children :
              /\ children[i].st = "done"
              /\ tool_result.results[i] = children[i].result
              /\ children[i].spec \in WellFormed =>
                    /\ children[i].outcome \in {"success", "timeout", "exception", "construct_failed"}
                    /\ (children[i].result.status = "success") <=> (children[i].outcome = "success")
                    /\ children[i].outcome # "construct_failed" => children[i].constructed

\* in sequential mode the first task failed in the preparation of its context
\* and the second, started after it, ran a chat that succeeded
C22_Witness ==
    /\ run_pc = "returned"
    /\ execution_mode_of(args) = "sequential"
    /\ Len(children) = 2
    /\ children[1].spec = "dict_bad_context"
    /\ tool_result.kind = "output"
    /\ tool_result.results[1].status = "error"
    /\ tool_result.results[1].error = "Context preparation failed"
    /\ children[2].constructed
    /\ children[2].llm_calls > 0
    /\ tool_result.results[2].status = "success"

\* C23: in parallel mode no chat of a child advances before every child has
\* been started, and the call returns only when every child has produced its
\* result, whatever the others did: what it returns then is the list of the
\* N results, entry i with task_id i.
C23_ParallelWaitsForAll ==
    (execution_mode_of(args) = "parallel" /\ validate(args) = "ok") =>
        /\ (\E i \in DOMAIN children : children[i].llm_calls > 0) =>
              \A j \in DOMAIN children : children[j].st # "pending"
        /\ run_pc \in {"returned", "appended"} =>
              /\ \A i \in DOMAIN children : children[i].st = "done"
              /\ Len(tool_result.results) = Len(children)
              /\ \A i \in DOMAIN children :
                    /\ tool_result.results[i] = children[i].result
                    /\ tool_result.results[i].task_id = i - 1

\* C24: in sequential mode at most one child is running at any moment; task
\* i+1 has neither had its context prepared nor its agent constructed before
\* the result of task i exists; and no task is left unstarted when the call
\* returns, whether or not the tasks before it failed.
C24_SequentialInOrder ==
    (execution_mode_of(args) = "sequential" /\ validate(args) = "ok") =>
        /\ Cardinality({i \in DOMAIN children : children[i].st = "running"}) <= 1
        /\ \A i \in DOMAIN children :
              (/\ i + 1 \in DOMAIN children
               /\ \/ children[i + 1].st # "pending"
                  \/ children[i + 1].prepare_context_called
                  \/ children[i + 1].constructed) =>
                  /\ children[i].st = "done"
                  /\ children[i].result.task_id = i - 1
        /\ run_pc \in {"returned", "appended"} =>
              \A i \in DOMAIN children : children[i].st # "pending"

\* C25: when the timeout of child i runs out the chat of child i is cancelled
\* at once and task i gets the error result saying it timed out; the step
\* leaves every other child as it was, it never becomes an error of the batch,
\* and the aggregated output carries that result next to the results of the
\* others.
C25_TimeoutIsLocal ==
    /\ [](\A i \in DOMAIN children :
            children[i].timeout_fired =>
                /\ children[i].st = "done"
                /\ children[i].chat = "cancelled"
                /\ children[i].result = TaskResult(i - 1, "error", "Sub-agent timed out")
                /\ (run_pc \in {"returned", "appended"} /\ tool_result.kind = "output") =>
                      /\ Len(tool_result.results) = Len(children)
                      /\ tool_result.results[i] = children[i].result)
    /\ [][\A i \in DOMAIN children :
            (/\ i \in DOMAIN children'
             /\ ~children[i].timeout_fired
             /\ children'[i].timeout_fired) =>
                /\ run_pc' = run_pc
                /\ tool_result' = tool_result
                /\ \A j \in DOMAIN children : j # i => children'[j] = children[j]]_vars

\* C26: a child makes at most max_turns model calls in its chat when
\* max_turns is given, and at most 15 when it is not, whatever max_iterations
\* the configuration file holds.
C26_MaxTurnsBoundsChild ==
    \A i \in DOMAIN children :
        children[i].llm_calls <=
            (IF args.max_turns = {} THEN DefaultSubagentTurns ELSE CHOOSE n \in args.max_turns : TRUE)

\* C27: in the aggregated result of N tasks the summary satisfies
\* total_tasks = N and successful + failed = total_tasks, each task counted
\* once under its own status; the report has one section per task, those of
\* the successful tasks before those of the failed ones, and within each group
\* in ascending task id.
C27_AggregateCountsAndOrder ==
    (run_pc \in {"returned", "appended"} /\ tool_result.kind = "output") =>
        LET results == tool_result.results
            summary == tool_result.summary
            report == tool_result.report
        IN  /\ summary.total_tasks = Len(children)
            /\ summary.successful = Cardinality({i \in DOMAIN results : results[i].status = "success"})
            /\ summary.failed = Cardinality({i \in DOMAIN results : results[i].status = "error"})
            /\ summary.successful + summary.failed = summary.total_tasks
            /\ Len(report) = Len(children)
            /\ \A i \in DOMAIN results :
                  Cardinality({k \in DOMAIN report : report[k].task_id = results[i].task_id}) = 1
            /\ \A k \in DOMAIN report :
                  report[k].section =
                      (IF results[report[k].task_id + 1].status = "success"
                       THEN "SUCCESSFUL TASKS" ELSE "FAILED TASKS")
            /\ \A k, l \in DOMAIN report :
                  k < l =>
                      /\ report[k].section = "FAILED TASKS" => report[l].section = "FAILED TASKS"
                      /\ report[k].section = report[l].section => report[k].task_id < report[l].task_id

\* the first of two tasks failed and the second succeeded: the report lists
\* task 1 before task 0
C27_Witness ==
    /\ run_pc = "returned"
    /\ tool_result.kind = "output"
    /\ Len(tool_result.results) = 2
    /\ tool_result.results[1].status = "error"
    /\ tool_result.results[2].status = "success"
    /\ tool_result.summary = [total_tasks |-> 2, successful |-> 1, failed |-> 1]
    /\ tool_result.report = <<[section |-> "SUCCESSFUL TASKS", task_id |-> 1],
                              [section |-> "FAILED TASKS", task_id |-> 0]>>

\* C28: while the sub-agents run, the history and the attempt counters of the
\* calling agent stay as they were at the call, and a step of one child
\* changes the history and counters of that child only; the history of a
\* child holds its own initial messages (all of them, or all but the last
\* when its turn was cancelled) and, after them, only the messages of its own
\* chat; when the call is over the calling agent's history has gained exactly
\* one message, the tool result of the call.
C28_HistoriesIsolated ==
    /\ [](/\ run_pc \in {"called", "spawning", "returned"} =>
                /\ messages = CallerHistory
                /\ attempt_counts = record_attempt(EmptyDict, "run_subagents")
          /\ run_pc = "appended" =>
                /\ Len(messages) = Len(CallerHistory) + 1
                /\ SubSeq(messages, 1, Len(CallerHistory)) = CallerHistory
                /\ messages[Len(messages)].role = "tool"
                /\ messages[Len(messages)].tool_call_id = RunSubagentsCall.id
                /\ DOMAIN attempt_counts = {"run_subagents"}
          /\ \A i \in DOMAIN children :
                children[i].constructed =>
                    LET own == build_initial_messages(children[i].spec = "dict_context")
                        h == children[i].messages
                        kept == IF Len(h) < Len(own) THEN Len(h) ELSE Len(own)
                    IN  /\ Len(h) >= Len(own) - 1
                        /\ SubSeq(h, 1, kept) = SubSeq(own, 1, kept)
                        /\ \A k \in (Len(own) + 1)..Len(h) : h[k].role \in {"assistant", "tool"}
                        /\ DOMAIN children[i].attempt_counts \subseteq {"bash"})
    /\ [][/\ (children # <<>> /\ children' # children) =>
                /\ messages' = messages
                /\ attempt_counts' = attempt_counts
                /\ \A i, j \in DOMAIN children :
                      (i # j /\ children'[i] # children[i]) => children'[j] = children[j]
          /\ (messages' # messages \/ attempt_counts' # attempt_counts) =>
                (run_pc = "returned" /\ run_pc' = "appended" /\ children' = children)]_vars

\* two children ran in parallel, one with a failed tool call and one without,
\* and the calling agent has appended the tool result of the call
C28_Witness ==
    /\ run_pc = "appended"
    /\ Len(messages) = 3
    /\ attempt_counts = [n \in {"run_subagents"} |-> 0]
    /\ Len(children) = 2
    /\ execution_mode_of(args) = "parallel"
    /\ children[1].constructed /\ children[2].constructed
    /\ children[1].spec = "dict_context"
    /\ Len(children[1].messages) > 2
    /\ Len(children[2].messages) > 1
    /\ children[1].attempt_counts = [n \in {"bash"} |-> 1]
    /\ children[2].attempt_counts = [n \in {"bash"} |-> 0]

(***************************************************************************)
(* ToolExecutor.execute_tool (tools/executor.py): one call, followed over   *)
(* time.  A tool is run as a subprocess (it has a "script") or in process   *)
(* (it has a "python_callable"); its "timeout" entry is absent or a number. *)
(* The command of a script tool may start processes of its own, which       *)
(* inherit the pipes of the subprocess unless they redirect their output.   *)
(***************************************************************************)
TimeoutValues == {{}} \cup {{n} : n \in 1..MaxTimeout}

ToolDefs ==
    {[name |-> "bash", kind |-> "script", timeout |-> t] : t \in TimeoutValues}
    \cup {[name |-> "recipe", kind |-> "python_callable", timeout |-> t] : t \in TimeoutValues}

\* timeout = tool.get("timeout", self.timeout), and self.timeout when that is
\* None (executor.py:66, 188)
tool_timeout(t, default) == IF t.timeout # {} THEN CHOOSE n \in t.timeout : TRUE ELSE default

\* the exception of executor.py:214-218: its text holds the timeout, the
\* command and the working directory
TimeoutException(seconds) ==
    [NoExecResult EXCEPT !.kind = "timeout", !.seconds = {seconds}, !.command = TRUE, !.cwd = TRUE]

\* the exception of executor.py:225-242 and that of 247-254
CommandException(kind) == [NoExecResult EXCEPT !.kind = kind, !.command = TRUE, !.cwd = TRUE]

\* EOF on stdout and stderr of the subprocess: no process holds their write ends
PipesClosed == process # "running" /\ descendant # "piped"

InitExecutor ==
    /\ tool \in ToolDefs
    /\ timeout \in 1..MaxTimeout
    /\ exec_pc = "called"
    /\ process = "none"
    /\ descendant = "none"
    /\ elapsed = 0
    /\ exec_result = NoExecResult
    /\ ProviderIdle
    /\ CommandIdle
    /\ args = NoArgs
    /\ run_pc = "none"
    /\ children = <<>>
    /\ tool_result = NoResult
    /\ tools_config = StudyConfig
    /\ is_subagent = FALSE
    /\ tools = agent_tools(StudyConfig, FALSE)
    /\ tools_by_name = loaded_by_name(StudyConfig)
    /\ messages = <<>>
    /\ attempt_counts = record_attempt(EmptyDict, tool.name)
    /\ max_attempts = MaxRetryAttempts
    /\ max_iterations = 1
    /\ pc = "execute_tool"
    /\ iteration = 1
    /\ calls = <<>>
    /\ ret = "none"
    /\ turn = 1
    /\ next_id = 1
    /\ llm_outstanding = FALSE
    /\ llm_calls = 1
    /\ streak = ZeroStreak
    /\ history0 = <<>>

\* execute_tool up to its first await (executor.py:53-69, 187-210): the
\* handler of an in-process tool is awaited as it is; the command of a script
\* tool is started, or is not found
ExecuteTool ==
    /\ exec_pc = "called"
    /\ IF tool.kind = "python_callable"
       THEN /\ exec_pc' = "handler"
            /\ UNCHANGED <<process, descendant, exec_result>>
       ELSE \E found \in BOOLEAN, started \in {"none", "piped", "detached"} :
                IF found
                THEN /\ exec_pc' = "communicate"
                     /\ process' = "running"
                     /\ descendant' = started
                     /\ exec_result' = exec_result
                ELSE /\ exec_pc' = "raised"
                     /\ exec_result' = CommandException("not_found")
                     /\ UNCHANGED <<process, descendant>>
    /\ UNCHANGED <<tool, timeout, elapsed, agent_vars, tracker_vars, config_vars, subagent_vars,
                   provider_vars, command_vars>>

\* a second passes while the call is suspended: in wait_for(communicate) only
\* up to the timeout, in process.wait() as long as the pipes are held, in an
\* in-process handler without limit
Tick ==
    /\ elapsed < MaxClock
    /\ \/ exec_pc = "handler"
       \/ exec_pc = "communicate" /\ elapsed < tool_timeout(tool, timeout)
       \/ exec_pc = "wait" /\ ~PipesClosed
    /\ elapsed' = elapsed + 1
    /\ UNCHANGED <<tool, timeout, exec_pc, process, descendant, exec_result,
                   agent_vars, tracker_vars, config_vars, subagent_vars,
                   provider_vars, command_vars>>

\* the subprocess ends by itself
ProcessExit ==
    /\ exec_pc = "communicate"
    /\ process = "running"
    /\ process' = "exited"
    /\ UNCHANGED <<tool, timeout, exec_pc, descendant, elapsed, exec_result,
                   agent_vars, tracker_vars, config_vars, subagent_vars,
                   provider_vars, command_vars>>

\* a process that the command started ends
DescendantExit ==
    /\ exec_pc \in {"communicate", "wait"}
    /\ descendant \in {"piped", "detached"}
    /\ descendant' = "exited"
    /\ UNCHANGED <<tool, timeout, exec_pc, process, elapsed, exec_result,
                   agent_vars, tracker_vars, config_vars, subagent_vars,
                   provider_vars, command_vars>>

\* process.communicate() completes in time (executor.py:208-245): the output,
\* or the exception of a non-zero exit code
CommunicateDone ==
    /\ exec_pc = "communicate"
    /\ PipesClosed
    /\ process' = "reaped"
    /\ \E code \in {"zero", "nonzero"} :
        IF code = "zero"
        THEN /\ exec_pc' = "returned"
             /\ exec_result' = [NoExecResult EXCEPT !.kind = "output"]
        ELSE /\ exec_pc' = "raised"
             /\ exec_result' = CommandException("nonzero_exit")
    /\ UNCHANGED <<tool, timeout, descendant, elapsed,
                   agent_vars, tracker_vars, config_vars, subagent_vars,
                   provider_vars, command_vars>>

\* wait_for raises TimeoutError: process.kill() signals the subprocess, and
\* process.wait() is awaited (executor.py:211-213)
TimeoutFire ==
    /\ exec_pc = "communicate"
    /\ elapsed >= tool_timeout(tool, timeout)
    /\ process' = IF process = "running" THEN "killed" ELSE process
    /\ exec_pc' = "wait"
    /\ UNCHANGED <<tool, timeout, descendant, elapsed, exec_result,
                   agent_vars, tracker_vars, config_vars, subagent_vars,
                   provider_vars, command_vars>>

\* process.wait() returns, which it does when the subprocess has ended and
\* its pipes are closed, and the timeout exception is raised (executor.py:
\* 213-218, 258-261)
WaitDone ==
    /\ exec_pc = "wait"
    /\ PipesClosed
    /\ process' = "reaped"
    /\ exec_pc' = "raised"
    /\ exec_result' = TimeoutException(tool_timeout(tool, timeout))
    /\ UNCHANGED <<tool, timeout, descendant, elapsed,
                   agent_vars, tracker_vars, config_vars, subagent_vars,
                   provider_vars, command_vars>>

\* the in-process handler returns or raises (executor.py:59-60)
HandlerDone ==
    /\ exec_pc = "handler"
    /\ \E raises \in BOOLEAN :
        IF raises
        THEN /\ exec_pc' = "raised"
             /\ exec_result' = [NoExecResult EXCEPT !.kind = "handler_exception"]
        ELSE /\ exec_pc' = "returned"
             /\ exec_result' = [NoExecResult EXCEPT !.kind = "handler_result"]
    /\ UNCHANGED <<tool, timeout, process, descendant, elapsed,
                   agent_vars, tracker_vars, config_vars, subagent_vars,
                   provider_vars, command_vars>>

\* the result message _execute_single_tool builds from what execute_tool
\* returned or raised (agent.py:184-221)
exec_message(result, name, attempt) ==
    IF result.kind \in {"output", "handler_result"}
    THEN <<format_tool_result(1, "result", 0, NoText)>>
    ELSE <<format_tool_result(1, "error", attempt,
                              to_llm_message(name, ErrorMessage(result.kind, name), attempt, max_attempts))>>

\* execute_tool is over: the rest of _execute_single_tool, in the agent
ExecReport ==
    /\ exec_pc \in {"returned", "raised"}
    /\ exec_pc' = "reported"
    /\ exec_result' = [exec_result EXCEPT !.message = exec_message(exec_result, tool.name, attempt_counts[tool.name])]
    /\ attempt_counts' = IF exec_pc = "returned" THEN record_success(attempt_counts, tool.name)
                         ELSE attempt_counts
    /\ UNCHANGED <<tool, timeout, process, descendant, elapsed, max_attempts, streak,
                   agent_vars, config_vars, subagent_vars,
                   provider_vars, command_vars>>

NextExecutor ==
    \/ ExecuteTool
    \/ Tick
    \/ ProcessExit
    \/ DescendantExit
    \/ CommunicateDone
    \/ TimeoutFire
    \/ WaitDone
    \/ HandlerDone
    \/ ExecReport

SpecExecutor == InitExecutor /\ [][NextExecutor]_vars

\* C29: when a subprocess tool has run into its timeout T, then at the moment
\* the call fails the subprocess has been killed and reaped and no process
\* that the call started is still running; the error names T, the command and
\* the working directory, and the agent turns it into one error tool-result.
C29_TimeoutKillsAndReports ==
    (exec_pc \in {"raised", "reported"} /\ exec_result.kind = "timeout") =>
        /\ tool.kind = "script"
        /\ process = "reaped"
        /\ descendant \in {"none", "exited"}
        /\ exec_result.seconds = {tool_timeout(tool, timeout)}
        /\ exec_result.command
        /\ exec_result.cwd
        /\ elapsed >= tool_timeout(tool, timeout)
        /\ exec_pc = "reported" =>
              /\ Len(exec_result.message) = 1
              /\ exec_result.message[1].role = "tool"
              /\ exec_result.message[1].content = "error"
              /\ exec_result.message[1].text.error.kind = "timeout"

\* C30: whichever way the tool is run, the call is never still in progress
\* once more time than the applicable timeout (the tool's own, else the
\* executor's default) has passed, and a result is never returned later than
\* that.
C30_TimeoutAlwaysEnforced ==
    /\ exec_pc \in {"communicate", "wait", "handler"} => elapsed <= tool_timeout(tool, timeout)
    /\ exec_pc \in {"returned", "raised", "reported"} => elapsed <= tool_timeout(tool, timeout)

(***************************************************************************)
(* LLMProvider.call of the providers (providers/*.py): one model call,      *)
(* from what the client of the backend hands back to the normalized         *)
(* response, and the continuation of chat() with it (agent.py:299-316).     *)
(* The arguments of a raw tool call are a value of the client: the JSON    *)
(* text of an object ("json_object"), the JSON text of an array             *)
(* ("json_array"), text that is not JSON ("malformed"), a mapping           *)
(* ("mapping") or None ("none").                                            *)
(***************************************************************************)
\* the classes of providers/, OpenAIProvider once per api_type
Backends == {"anthropic", "openai_chat", "openai_responses", "litellm", "oracle", "gemini"}

\* the backends whose client hands the arguments over as serialized text
SerializedBackends == {"openai_chat", "openai_responses", "litellm", "oracle"}

\* isinstance(arguments, str)
IsStr(payload) == payload \in {"json_object", "json_array", "malformed"}

\* json.loads of an argument payload: the value, or the exception it raises
json_loads(payload) ==
    IF payload = "json_object" THEN "mapping"
    ELSE IF payload = "json_array" THEN "list"
    ELSE "JSONDecodeError"

\* the arguments of a canonical tool call, as each backend derives them
\* (openai_provider.py:170-174, 299-303, litellm_provider.py:110-116,
\* oracle_provider.py:232, anthropic_provider.py:251, gemini_provider.py:180-181)
parse_arguments(b, payload) ==
    IF b \in {"openai_chat", "openai_responses", "litellm"}
    THEN IF ~IsStr(payload) THEN payload
         ELSE IF json_loads(payload) = "JSONDecodeError" THEN "empty_map"
         ELSE json_loads(payload)
    ELSE IF b = "oracle"
    THEN IF IsStr(payload) THEN json_loads(payload) ELSE payload
    ELSE IF b = "gemini"
    THEN IF payload = "none" THEN "empty_map" ELSE payload
    ELSE payload

\* the stop signal of a backend that ends the turn
EndSignal(b) ==
    IF b = "anthropic" THEN "end_turn"
    ELSE IF b = "openai_responses" THEN "completed"
    ELSE "stop"

\* a variant of done that trusts the stop signal alone
done_by_stop_signal(b, stop, tool_calls) == stop = EndSignal(b)

\* done, as each backend computes it (anthropic_provider.py:255,
\* openai_provider.py:183, 312-313, litellm_provider.py:125,
\* oracle_provider.py:238, gemini_provider.py:188)
done(b, stop, tool_calls) ==
    IF b = "anthropic" THEN Done(stop, tool_calls)
    ELSE IF b \in {"openai_chat", "openai_responses"} THEN stop = EndSignal(b) /\ tool_calls = <<>>
    ELSE tool_calls = <<>>

\* the canonical tool calls of a raw message
canonical_tool_calls(b, raw) ==
    [i \in DOMAIN raw.tool_calls |->
        [id |-> raw.tool_calls[i].id, name |-> raw.tool_calls[i].name,
         arguments |-> parse_arguments(b, raw.tool_calls[i].payload)]]

\* LLMProvider.call after the client has answered: the normalized response,
\* or the exception that leaves call()
call(b, raw) ==
    IF raw.stop = "api_error"
    THEN [NoResponse EXCEPT !.kind = "raised"]
    ELSE IF b = "gemini" /\ ~raw.candidates
    THEN [kind |-> "returned", message |-> "No response from Gemini", tool_calls |-> <<>>, done |-> TRUE]
    ELSE IF \E i \in DOMAIN raw.tool_calls : canonical_tool_calls(b, raw)[i].arguments = "JSONDecodeError"
    THEN [NoResponse EXCEPT !.kind = "raised"]
    ELSE [kind |-> "returned", message |-> raw.text,
          tool_calls |-> canonical_tool_calls(b, raw),
          done |-> done(b, raw.stop, canonical_tool_calls(b, raw))]

\* the stop signals a raw message of backend b may carry
StopSignals(b) ==
    IF b = "anthropic" THEN {"end_turn", "tool_use", "max_tokens", "api_error"}
    ELSE IF b = "openai_responses" THEN {"completed", "incomplete", "api_error"}
    ELSE {"stop", "tool_calls", "length", "api_error"}

\* the argument payloads the client of backend b may hand over
Payloads(b) ==
    IF b \in SerializedBackends THEN {"json_object", "json_array", "malformed"}
    ELSE IF b = "gemini" THEN {"mapping", "none"}
    ELSE {"mapping"}

\* the raw tool calls of a message: up to MaxRawCalls calls of the tool bash
RawToolCalls(b) ==
    UNION {{[i \in 1..n |-> [id |-> i, name |-> "bash", payload |-> p[i]]] : p \in [1..n -> Payloads(b)]} :
           n \in 0..MaxRawCalls}

RawMessages(b) ==
    {[stop |-> s, text |-> t, tool_calls |-> tcs, candidates |-> c] :
        s \in StopSignals(b), t \in {"", "answer"}, tcs \in RawToolCalls(b),
        c \in IF b = "gemini" THEN BOOLEAN ELSE {TRUE}}

InitProvider ==
    /\ backend \in Backends
    /\ raw_message \in RawMessages(backend)
    /\ llm_response = NoResponse
    /\ llm_pc = "called"
    /\ CommandIdle
    /\ ExecutorIdle
    /\ args = NoArgs
    /\ run_pc = "none"
    /\ children = <<>>
    /\ tool_result = NoResult
    /\ tools_config = StudyConfig
    /\ is_subagent = FALSE
    /\ tools = agent_tools(StudyConfig, FALSE)
    /\ tools_by_name = loaded_by_name(StudyConfig)
    /\ messages = <<UserMsg("hi")>>
    /\ attempt_counts = EmptyDict
    /\ max_attempts = MaxRetryAttempts
    /\ max_iterations = 1
    /\ pc = "llm"
    /\ iteration = 1
    /\ calls = <<>>
    /\ ret = "none"
    /\ turn = 1
    /\ next_id = 0
    /\ llm_outstanding = TRUE
    /\ llm_calls = 1
    /\ streak = ZeroStreak
    /\ history0 = <<>>

\* the client answers: the rest of call(), and chat() from the return of
\* call() to its own return or to the dispatch of the batch (agent.py:299-316)
ProviderRespond ==
    /\ llm_pc = "called"
    /\ llm_response' = call(backend, raw_message)
    /\ llm_outstanding' = FALSE
    /\ IF llm_response'.kind = "raised"
       THEN /\ llm_pc' = "raised"
            /\ pc' = "raised"
            /\ UNCHANGED <<messages, ret, calls>>
       ELSE /\ messages' = Append(messages, format_assistant_message(llm_response'))
            /\ IF llm_response'.done
               THEN /\ llm_pc' = "final"
                    /\ pc' = "returned"
                    /\ ret' = llm_response'.message
                    /\ calls' = <<>>
               ELSE /\ llm_pc' = "dispatch"
                    /\ pc' = "auto"
                    /\ ret' = ret
                    /\ calls' = [i \in DOMAIN llm_response'.tool_calls |-> NewCall(llm_response'.tool_calls[i])]
    /\ UNCHANGED <<backend, raw_message, max_iterations, iteration, turn, next_id, llm_calls,
                   history0, tracker_vars, config_vars, subagent_vars, executor_vars, command_vars>>

NextProvider == ProviderRespond

SpecProvider == InitProvider /\ [][NextProvider]_vars

\* C31: for every backend a response with done = true has no tool calls;
\* chat() returns the text of the response as its answer only when the
\* response has no tool calls, and a response with tool calls always leads to
\* the dispatch of one call per tool call.
C31_DoneOnlyWithoutToolCalls ==
    /\ (llm_response.kind = "returned" /\ llm_response.done) => llm_response.tool_calls = <<>>
    /\ llm_pc = "final" =>
          /\ llm_response.tool_calls = <<>>
          /\ ret = llm_response.message
    /\ (llm_response.kind = "returned" /\ llm_response.tool_calls # <<>>) =>
          /\ llm_pc = "dispatch"
          /\ Len(calls) = Len(llm_response.tool_calls)
          /\ ret = "none"

\* the client ended the turn with its stop signal and yet handed over tool
\* calls: call() has answered done = false and chat() dispatches them
C31_Witness ==
    /\ llm_pc = "dispatch"
    /\ raw_message.stop = EndSignal(backend)
    /\ backend = "openai_chat"
    /\ Len(llm_response.tool_calls) = 2
    /\ ~llm_response.done
    /\ Len(calls) = 2

\* C32: for the backends that receive the arguments as serialized text, a
\* tool call whose payload is malformed comes out of call() with the empty
\* map as its arguments: call() does not raise, and every tool call of the
\* response is returned, with its id and name.
C32_MalformedArgumentsDegrade ==
    (/\ backend \in SerializedBackends
     /\ llm_pc # "called"
     /\ raw_message.stop # "api_error"
     /\ \E i \in DOMAIN raw_message.tool_calls : raw_message.tool_calls[i].payload = "malformed") =>
        /\ llm_response.kind = "returned"
        /\ Len(llm_response.tool_calls) = Len(raw_message.tool_calls)
        /\ \A i \in DOMAIN raw_message.tool_calls :
            /\ llm_response.tool_calls[i].id = raw_message.tool_calls[i].id
            /\ llm_response.tool_calls[i].name = raw_message.tool_calls[i].name
            /\ raw_message.tool_calls[i].payload = "malformed" =>
                  llm_response.tool_calls[i].arguments = "empty_map"

(***************************************************************************)
(* AnthropicProvider._convert_messages (anthropic_provider.py:109-201):    *)
(* the wire history built from the history of the agent.  A wire message   *)
(* has a role and a sequence of content blocks; a block has a type (text,  *)
(* tool_use, tool_result) and, for the last two, the id of the tool call.  *)
(***************************************************************************)
Block(type, id) == [type |-> type, id |-> id]

WireMsg(role, content) == [role |-> role, content |-> content]

\* the blocks of an assistant message: its text when it is not empty, then
\* one tool_use per tool call (anthropic_provider.py:161-176)
assistant_blocks(msg) ==
    (IF msg.content # "" THEN <<Block("text", 0)>> ELSE <<>>)
    \o [i \in DOMAIN msg.tool_calls |-> Block("tool_use", msg.tool_calls[i].id)]

\* the loop of _convert_messages from message k on, with the wire messages
\* built so far and the pending tool results
RECURSIVE convert_from(_, _, _, _)
convert_from(msgs, k, anthropic_messages, pending_tool_results) ==
    IF k > Len(msgs)
    THEN IF pending_tool_results # <<>>
         THEN Append(anthropic_messages, WireMsg("user", pending_tool_results))
         ELSE anthropic_messages
    ELSE IF msgs[k].role = "user"
    THEN IF pending_tool_results # <<>>
         THEN convert_from(msgs, k + 1,
                  Append(anthropic_messages,
                         WireMsg("user", pending_tool_results
                                         \o (IF msgs[k].content # "" THEN <<Block("text", 0)>> ELSE <<>>))),
                  <<>>)
         ELSE convert_from(msgs, k + 1,
                  Append(anthropic_messages, WireMsg("user", <<Block("text", 0)>>)),
                  pending_tool_results)
    ELSE IF msgs[k].role = "assistant"
    THEN IF assistant_blocks(msgs[k]) # <<>>
         THEN convert_from(msgs, k + 1,
                  Append(anthropic_messages, WireMsg("assistant", assistant_blocks(msgs[k]))),
                  pending_tool_results)
         ELSE convert_from(msgs, k + 1, anthropic_messages, pending_tool_results)
    ELSE IF msgs[k].role = "tool"
    THEN convert_from(msgs, k + 1, anthropic_messages,
                      Append(pending_tool_results, Block("tool_result", msgs[k].tool_call_id)))
    ELSE convert_from(msgs, k + 1, anthropic_messages, pending_tool_results)

_convert_messages(msgs) == convert_from(msgs, 1, <<>>, <<>>)

\* wire message j holds a block of the given type for the tool call id
Holds(wire, j, type, id) == \E b \in DOMAIN wire[j].content : wire[j].content[b] = Block(type, id)

\* C33: in the wire history built from the history that chat() submits to
\* the model, every tool result is exactly one tool_result block, and that
\* block is in the user message that comes immediately after the assistant
\* message holding the tool_use of the same id.
C33_ToolResultFollowsItsToolUse ==
    pc = "llm" =>
        LET wire == _convert_messages(messages)
        IN  \A k \in DOMAIN messages :
                messages[k].role = "tool" =>
                    LET id == messages[k].tool_call_id
                    IN  /\ Cardinality({<<j, b>> \in (DOMAIN wire) \X (1..(MaxToolCalls + 1)) :
                                           /\ b \in DOMAIN wire[j].content
                                           /\ wire[j].content[b] = Block("tool_result", id)}) = 1
                        /\ \E j \in DOMAIN wire :
                              /\ wire[j].role = "assistant"
                              /\ Holds(wire, j, "tool_use", id)
                              /\ j + 1 \in DOMAIN wire
                              /\ wire[j + 1].role = "user"
                              /\ Holds(wire, j + 1, "tool_result", id)

(***************************************************************************)
(* ToolExecutor._build_command_array (tools/executor.py:101-165).  A       *)
(* string is a sequence of characters, a character one of: a letter "a",   *)
(* "c", "d"; SP space, TAB, NL newline; SQ single quote, DQ double quote,  *)
(* BS backslash, SEMI semicolon.  A template is a string in which the      *)
(* item "{x}" stands for the placeholder of the parameter x.               *)
(***************************************************************************)
ValueChars == {"a", "SP", "TAB", "NL", "SQ", "DQ", "BS", "SEMI"}

\* the strings of at most n characters
Strings(n) == UNION {[1..k -> ValueChars] : k \in 0..n}

\* the characters whose presence makes the code quote a value (executor.py:145);
\* of the alphabet: space, both quotes, backslash and ";"
SpecialChars == {"SP", "DQ", "SQ", "BS", "SEMI"}

\* shlex: whitespace, quotes
Whitespace == {"SP", "TAB", "NL"}

Quotes == {"SQ", "DQ"}

\* s.replace("'", "'\"'\"'")
RECURSIVE replace_quotes(_)
replace_quotes(s) ==
    IF s = <<>> THEN <<>>
    ELSE (IF Head(s) = "SQ" THEN <<"SQ", "DQ", "SQ", "DQ", "SQ">> ELSE <<Head(s)>>)
         \o replace_quotes(Tail(s))

\* shlex.quote of a string that holds a character outside the safe set
shlex_quote(s) == <<"SQ">> \o replace_quotes(s) \o <<"SQ">>

\* safe_args[key] for a string value (executor.py:132-148)
safe_arg(v) ==
    IF v = <<>> THEN <<"SQ", "SQ">>
    ELSE IF \E i \in DOMAIN v : v[i] \in SpecialChars THEN shlex_quote(v)
    ELSE v

\* script_template.format(**safe_args) (executor.py:152)
RECURSIVE format(_, _)
format(script_template, safe) ==
    IF script_template = <<>> THEN <<>>
    ELSE (IF Head(script_template) = "{x}" THEN safe ELSE <<Head(script_template)>>)
         \o format(Tail(script_template), safe)

\* the tokens of shlex.split (POSIX rules, no comments): the lexer at
\* character k of s, in state "ws" (between tokens), "word", "SQ" or "DQ"
\* (inside quotes) or "BS" (after a backslash, to return to state escaped),
\* with the token read so far and whether a part of it was quoted
RECURSIVE split_from(_, _, _, _, _, _, _)
split_from(s, k, state, escaped, token, quoted, out) ==
    IF k > Len(s)
    THEN IF state \in Quotes \cup {"BS"}
         THEN [raised |-> TRUE, argv |-> <<>>]
         ELSE [raised |-> FALSE,
               argv |-> IF token # <<>> \/ quoted THEN Append(out, token) ELSE out]
    ELSE IF state = "ws"
    THEN IF s[k] \in Whitespace THEN split_from(s, k + 1, "ws", escaped, <<>>, FALSE, out)
         ELSE IF s[k] = "BS" THEN split_from(s, k + 1, "BS", "word", <<>>, FALSE, out)
         ELSE IF s[k] \in Quotes THEN split_from(s, k + 1, s[k], escaped, <<>>, TRUE, out)
         ELSE split_from(s, k + 1, "word", escaped, <<s[k]>>, FALSE, out)
    ELSE IF state \in Quotes
    THEN IF s[k] = state THEN split_from(s, k + 1, "word", escaped, token, TRUE, out)
         ELSE IF s[k] = "BS" /\ state = "DQ" THEN split_from(s, k + 1, "BS", state, token, TRUE, out)
         ELSE split_from(s, k + 1, state, escaped, Append(token, s[k]), TRUE, out)
    ELSE IF state = "BS"
    THEN split_from(s, k + 1, escaped, escaped,
                    (IF escaped \in Quotes /\ s[k] # "BS" /\ s[k] # escaped
                     THEN Append(token, "BS") ELSE token) \o <<s[k]>>,
                    quoted, out)
    ELSE IF s[k] \in Whitespace
         THEN split_from(s, k + 1, "ws", escaped, <<>>, FALSE,
                         IF token # <<>> \/ quoted THEN Append(out, token) ELSE out)
         ELSE IF s[k] \in Quotes THEN split_from(s, k + 1, s[k], escaped, token, TRUE, out)
         ELSE IF s[k] = "BS" THEN split_from(s, k + 1, "BS", "word", token, quoted, out)
         ELSE split_from(s, k + 1, "word", escaped, Append(token, s[k]), quoted, out)

shlex_split(s) == split_from(s, 1, "ws", "word", <<>>, FALSE, <<>>)

\* _build_command_array for the template and the value of its parameter:
\* the argument vector, or ValueError (executor.py:150-165)
_build_command_array(script_template, v) ==
    LET split == shlex_split(format(script_template, safe_arg(v)))
    IN  IF split.raised \/ split.argv = <<>>
        THEN [raised |-> TRUE, argv |-> <<>>]
        ELSE split

\* the templates of the study: "c {x}" and "c {x} d"
Scripts == {<<"c", "SP", "{x}">>, <<"c", "SP", "{x}", "SP", "d">>}

InitCommand ==
    /\ script \in Scripts
    /\ value \in Strings(MaxLen)
    /\ command_array = <<>>
    /\ build_pc = "called"
    /\ ProviderIdle
    /\ ExecutorIdle
    /\ args = NoArgs
    /\ run_pc = "none"
    /\ children = <<>>
    /\ tool_result = NoResult
    /\ tools_config = StudyConfig
    /\ is_subagent = FALSE
    /\ tools = agent_tools(StudyConfig, FALSE)
    /\ tools_by_name = loaded_by_name(StudyConfig)
    /\ messages = <<>>
    /\ attempt_counts = EmptyDict
    /\ max_attempts = MaxRetryAttempts
    /\ max_iterations = 1
    /\ pc = "execute_tool"
    /\ iteration = 1
    /\ calls = <<>>
    /\ ret = "none"
    /\ turn = 1
    /\ next_id = 1
    /\ llm_outstanding = FALSE
    /\ llm_calls = 1
    /\ streak = ZeroStreak
    /\ history0 = <<>>

BuildCommand ==
    /\ build_pc = "called"
    /\ LET built == _build_command_array(script, value)
       IN  /\ build_pc' = IF built.raised THEN "raised" ELSE "returned"
           /\ command_array' = built.argv
    /\ UNCHANGED <<script, value, agent_vars, tracker_vars, config_vars, subagent_vars,
                   executor_vars, provider_vars>>

NextCommand == BuildCommand

SpecCommand == InitCommand /\ [][NextCommand]_vars

\* the words of a template around its placeholder
WordsBefore(script_template) == <<<<"c">>>>

WordsAfter(script_template) == IF Len(script_template) > 3 THEN <<<<"d">>>> ELSE <<>>

\* C34: whatever characters the value holds, building the command succeeds
\* and the argument vector is the words of the template with the value, as
\* it is, as the one element in the place of the placeholder.
C34_ValueIsOneArgument ==
    build_pc # "called" =>
        /\ build_pc = "returned"
        /\ command_array = WordsBefore(script) \o <<value>> \o WordsAfter(script)

\* C35: the timeout around the chat of a child of a configuration that sets
\* no sub-agent timeout is DEFAULT_SUBAGENT_TIMEOUT, and it is not the
\* default timeout of the tool executor.
C35_SubagentTimeoutIsItsOwn ==
    \A i \in DOMAIN children :
        children[i].constructed =>
            /\ children[i].timeout = DEFAULT_SUBAGENT_TIMEOUT
            /\ children[i].timeout # timeout

\* the position, in a sequence of tool-result messages, of the result of the call id
PositionOf(results, id) == CHOOSE p \in DOMAIN results : results[p].tool_call_id = id

\* C36: no step taken during the dispatch of a batch changes the history,
\* except the step that ends the dispatch with every call finished: that step
\* appends the results of all the calls at once, those of the non-gated calls
\* in request order first, then those of the gated calls in request order.
C36_ResultsAppendedAtOnceInOrder ==
    /\ [][(pc \in {"auto", "gated"} /\ (pc' \in {"auto", "gated"} \/ \E i \in DOMAIN calls' : calls'[i].st # "done"))
            => messages' = messages]_vars
    /\ [][(pc \in {"auto", "gated"} /\ pc' \notin {"auto", "gated"} /\ \A i \in DOMAIN calls' : calls'[i].st = "done")
            => LET appended == SubSeq(messages', Len(messages) + 1, Len(messages'))
               IN  /\ Len(messages') = Len(messages) + Len(calls')
                   /\ SubSeq(messages', 1, Len(messages)) = messages
                   /\ \A i \in DOMAIN calls' :
                         /\ \E p \in DOMAIN appended : appended[p].tool_call_id = calls'[i].id
                         /\ appended[PositionOf(appended, calls'[i].id)] = calls'[i].result
                   /\ \A i, j \in DOMAIN calls' :
                         (\/ needs_approval(calls'[i].name) = needs_approval(calls'[j].name) /\ i < j
                          \/ ~needs_approval(calls'[i].name) /\ needs_approval(calls'[j].name))
                         => PositionOf(appended, calls'[i].id) < PositionOf(appended, calls'[j].id)]_vars

\* a batch whose first call is gated and whose other two calls are not has
\* completed: the history ends with the results of the second, the third and
\* the first call, in that order
C36_Witness ==
    /\ BatchCompleted
    /\ Len(calls) = 3
    /\ needs_approval(calls[1].name)
    /\ ~needs_approval(calls[2].name)
    /\ ~needs_approval(calls[3].name)
    /\ Gained[1].tool_call_id = calls[2].id
    /\ Gained[2].tool_call_id = calls[3].id
    /\ Gained[3].tool_call_id = calls[1].id
    /\ Gained[3].content = "result"

\* C37: for every failed tool call, the retry decision read from the tracker
\* when the failure is handled (can_retry, shown as "Retrying" or "Error")
\* is the retry decision of the error text sent to the model (recovery hints
\* and "N more attempt(s)" when attempt < max_attempts, else "Maximum retry
\* attempts reached").
C37_RetryDecisionsAgree ==
    \A i \in DOMAIN calls :
        (calls[i].st = "done" /\ calls[i].failed) =>
            /\ calls[i].will_retry = calls[i].result.text.hints
            /\ calls[i].will_retry = (calls[i].result.text.remaining # {})
            /\ calls[i].will_retry = (calls[i].attempt < max_attempts)

\* C38: a run_subagents call that returns an error dictionary (it does not
\* raise) is a success for the tracker: the attempt it had counted is reset
\* to 0, and the result message appended to the history is an ordinary tool
\* result, with no attempt number, no recovery hints and no retry budget.
C38_ReturnedErrorCountsAsSuccess ==
    /\ (run_pc = "returned" /\ tool_result.kind = "error") => attempt_counts["run_subagents"] = 1
    /\ (run_pc = "appended" /\ tool_result.kind = "error") =>
          /\ attempt_counts["run_subagents"] = 0
          /\ messages[Len(messages)].role = "tool"
          /\ messages[Len(messages)].tool_call_id = RunSubagentsCall.id
          /\ messages[Len(messages)].content = "result"
          /\ messages[Len(messages)].attempt = 0
          /\ messages[Len(messages)].text = NoText
          /\ ~messages[Len(messages)].text.hints
          /\ messages[Len(messages)].text.remaining = {}

\* the error dictionary for an empty task list has been appended to the
\* history of the calling agent as the result of the call
C38_Witness ==
    /\ run_pc = "appended"
    /\ args.tasks.type = "list"
    /\ args.tasks.size = 0
    /\ tool_result.kind = "error"
    /\ children = <<>>
    /\ attempt_counts = [n \in {"run_subagents"} |-> 0]
    /\ Len(messages) = Len(CallerHistory) + 1

\* the ways a task ends without a chat that returned
FailureOutcomes == {"ill_formed", "context_failed", "construct_failed", "exception", "timeout"}

\* C39: a task is reported with status error only when its context could not
\* be prepared, an exception was raised while the child was built or run, or
\* the child timed out; a child whose chat returned is reported with status
\* success and the returned text as its output, be it the answer, the
\* iteration-limit message or the empty string of a cancelled turn.
C39_ReturnedChatIsSuccess ==
    \A i \in DOMAIN children :
        /\ children[i].result.status = "error" =>
              /\ children[i].outcome \in FailureOutcomes
              /\ children[i].chat # "returned"
              /\ children[i].result.output = {}
        /\ children[i].chat = "returned" =>
              /\ children[i].st = "done"
              /\ children[i].ret \in {"text", LimitMessage, ""}
              /\ children[i].result = SuccessResult(i - 1, children[i].ret)
        /\ children[i].result.status = "success" => children[i].chat = "returned"

\* the call reports two successes: a child that ran out of iterations, with
\* the limit message as output, and a child whose turn was cancelled, with
\* the empty string
C39_Witness ==
    /\ run_pc = "returned"
    /\ Len(children) = 2
    /\ children[1].result.status = "success"
    /\ children[1].result.output = {LimitMessage}
    /\ children[1].llm_calls = children[1].max_iterations
    /\ children[2].result.status = "success"
    /\ children[2].result.output = {""}
    /\ tool_result.summary.successful = 2

(***************************************************************************)
(* The history and the counters across a failed model call.                *)
(***************************************************************************)
\* C40: a model call that raises rolls nothing back: the step leaves the
\* history and the tracker's counters as they were, so that after the raise the
\* history is still the history of the start of the turn followed by what the
\* turn appended; and the next chat() keeps all of it and puts its user
\* message (when it has one to append: a non-empty one) at the end.
C40_NoRollbackOnFailure ==
    /\ [][LLMFail => (messages' = messages /\ attempt_counts' = attempt_counts)]_vars
    /\ [](pc = "raised" =>
             /\ Len(messages) >= Len(history0)
             /\ SubSeq(messages, 1, Len(history0)) = history0)
    /\ [][(pc = "raised" /\ turn' = turn + 1) =>
             \E user_message \in UserInputs :
                 messages' = IF user_message # "" \/ messages = <<>>
                             THEN Append(messages, UserMsg(user_message))
                             ELSE messages]_vars

\* the second model call of a turn has raised: the user message of the turn,
\* the assistant message of the first iteration and the result of a failed
\* call are in the history, and the tracker holds the attempt of that call
C40_Witness ==
    /\ pc = "raised"
    /\ iteration = 2
    /\ Len(messages) >= Len(history0) + 3
    /\ messages[Len(history0) + 1].role = "user"
    /\ messages[Len(history0) + 2].role = "assistant"
    /\ \A k \in (Len(history0) + 3)..Len(messages) : messages[k].role = "tool"
    /\ \E n \in DOMAIN attempt_counts : attempt_counts[n] >= 1

=============================================================================
